---- MODULE Spec2Model ----
(***************************************************************************)
(* A model of the xt template front end: the lexer goroutine (lexer.go),   *)
(* the channel that carries its items, and the recursive-descent parser    *)
(* (parser.go, tagblock.go, tagif.go, tag.go) that consumes them.          *)
(*                                                                         *)
(* Strings are sequences of bytes.  A byte is a one-character string; the  *)
(* two bytes of the UTF-8 encoding of U+00E9 are written "C3" and "A9".    *)
(* Byte offsets are 0-based as in Go, sequences are 1-based: the byte at   *)
(* offset p of s is s[p + 1] and s[a:b] is SubSeq(s, a + 1, b).            *)
(***************************************************************************)
EXTENDS Integers, Sequences, FiniteSets, TLC

\* ------------------------------------------------------------------------
\* Item types (lexer.go, the iota block)
\* ------------------------------------------------------------------------
itemError == 0
itemBool == 1
itemChar == 2
itemAssign == 3
itemComparison == 4
itemEOF == 5
itemField == 6
itemIdentifier == 7
itemTagStart == 8
itemLeftParen == 9
itemNumber == 10
itemPipe == 11
itemTagEnd == 12
itemRightParen == 13
itemSpace == 14
itemString == 15
itemText == 16
itemVariable == 17
itemVarStart == 18
itemVarEnd == 19
itemKeyword == 20
itemBlock == 21
itemElse == 22
itemElIf == 23
itemEnd == 24
itemIf == 25

\* The delimiters, as byte sequences.
delimTagStart == <<"{", "%">>
delimTagEnd == <<"%", "}">>
delimVarStart == <<"{", "{">>
delimVarEnd == <<"}", "}">>

\* The rune next() returns at the end of the input (-1 in the source).
eof == "eof"
\* utf8.RuneError, what DecodeRuneInString returns for a malformed encoding.
RuneError == "RuneError"

\* ------------------------------------------------------------------------
\* Character classes (package unicode, package strings)
\* ------------------------------------------------------------------------
LowerLetters ==
    {"a", "b", "c", "d", "e", "f", "g", "h", "i", "j", "k", "l", "m", "n",
     "o", "p", "q", "r", "s", "t", "u", "v", "w", "x", "y", "z"}
UpperLetters == {"A", "B", "C", "D", "E", "F", "O", "P", "X"}
Digits == {"0", "1", "2", "3", "4", "5", "6", "7", "8", "9"}
Punctuation ==
    {"{", "}", "%", "(", ")", "!", "=", "<", ">", "|", "\"", "'", "\\",
     "+", "-", ".", ",", "_", "$", " "}

\* unicode.IsLetter: the ASCII letters and the decoded rune U+00E9.
IsLetter(r) == r \in LowerLetters \cup UpperLetters \cup {"U+00E9"}
IsDigit(r) == r \in Digits
\* r <= unicode.MaxASCII && unicode.IsPrint(r)
IsPrintASCII(r) == r \in LowerLetters \cup UpperLetters \cup Digits \cup Punctuation

isSpace(r) == r = " " \/ r = "\t"
isEndOfLine(r) == r = "\r" \/ r = "\n"
isAlphaNumeric(r) == r = "_" \/ IsLetter(r) \/ IsDigit(r)

\* utf8.DecodeRuneInString(s[pos:]) for pos < len(s): the rune and its width.
DecodeRune(s, pos) ==
    LET b == s[pos + 1] IN
    IF b = "C3" /\ pos + 2 <= Len(s) /\ s[pos + 2] = "A9"
    THEN [r |-> "U+00E9", w |-> 2]
    ELSE IF b \in {"C3", "A9"}
    THEN [r |-> RuneError, w |-> 1]
    ELSE [r |-> b, w |-> 1]

\* s[a:b]
Slice(s, a, b) == SubSeq(s, a + 1, b)

\* strings.HasPrefix(s[pos:], prefix)
HasPrefixAt(s, pos, prefix) ==
    /\ pos + Len(prefix) <= Len(s)
    /\ Slice(s, pos, pos + Len(prefix)) = prefix

\* strings.Count(s, "\n")
RECURSIVE CountNewlines(_)
CountNewlines(s) ==
    IF s = <<>> THEN 0
    ELSE (IF Head(s) = "\n" THEN 1 ELSE 0) + CountNewlines(Tail(s))

\* strings.IndexRune(s[pos:], '{'): the offset relative to pos, or -1.
RECURSIVE IndexBraceFrom(_, _, _)
IndexBraceFrom(s, pos, k) ==
    IF pos + k >= Len(s) THEN -1
    ELSE IF s[pos + k + 1] = "{" THEN k
    ELSE IndexBraceFrom(s, pos, k + 1)
IndexBrace(s, pos) == IndexBraceFrom(s, pos, 0)

\* ------------------------------------------------------------------------
\* Items
\* ------------------------------------------------------------------------
Item(t, p, v, ln, c) == [typ |-> t, pos |-> p, val |-> v, line |-> ln, col |-> c]
\* The zero value of item: what a receive from the closed channel yields.
ZeroItem == Item(itemError, 0, <<>>, 0, 0)

\* ------------------------------------------------------------------------
\* The lexer's primitives.  l is the lexer struct without its channel.
\* ------------------------------------------------------------------------
\* lex(): the struct the constructor builds.
NewLexer(in) ==
    [input |-> in, line |-> 1, startLine |-> 1, col |-> 0, parenDepth |-> 0,
     pos |-> 0, start |-> 0, width |-> 0]

\* The member of the singleton S.  The(f(x) : x \in {e}) is f(e) with e
\* worked out once, however often f refers to it.
The(S) == CHOOSE x \in S : TRUE

\* next: [l |-> the lexer afterwards, r |-> the rune]
next(l) ==
    IF l.pos >= Len(l.input)
    THEN [l |-> [l EXCEPT !.width = 0], r |-> eof]
    ELSE LET d == DecodeRune(l.input, l.pos) IN
         [l |-> [l EXCEPT !.width = d.w,
                          !.pos = l.pos + d.w,
                          !.line = IF d.r = "\n" THEN l.line + 1 ELSE l.line],
          r |-> d.r]

backup(l) ==
    LET p == l.pos - l.width IN
    [l EXCEPT !.pos = p,
              !.line = IF l.width = 1 /\ l.input[p + 1] = "\n"
                       THEN l.line - 1 ELSE l.line]

\* The item emit sends.
EmitItem(l, t) ==
    Item(t, l.pos, Slice(l.input, l.start, l.pos), l.startLine, l.col)
\* The lexer after emit's send has completed.
AfterEmit(l) == [l EXCEPT !.start = l.pos, !.startLine = l.line]

ignore(l) ==
    LET ln == l.line + CountNewlines(Slice(l.input, l.start, l.pos)) IN
    [l EXCEPT !.line = ln, !.start = l.pos, !.startLine = ln]

\* accept: [l, ok]
accept(l, valid) ==
    The({IF n.r \in valid THEN [l |-> n.l, ok |-> TRUE]
         ELSE [l |-> backup(n.l), ok |-> FALSE] : n \in {next(l)}})

RECURSIVE acceptRun(_, _)
acceptRun(l, valid) ==
    The({IF n.r \in valid THEN acceptRun(n.l, valid) ELSE backup(n.l) :
         n \in {next(l)}})

\* The item errorf sends; its message is kept as a sequence of pieces.
ErrorItem(l, msg) == Item(itemError, l.start, msg, l.startLine, l.col)

\* ------------------------------------------------------------------------
\* The state functions.  Each yields [l, out, nxt]: the lexer struct after
\* the call (after the send, when it sends), the items it sends (none or
\* one) and the next state; "close" stands for the nil state, on which run
\* leaves its loop and closes the channel.  A state function that sends
\* twice is cut at its second send (lexTextEOF, lexRightParenError).
\* ------------------------------------------------------------------------
Goto(l, nxt) == [l |-> l, out |-> <<>>, nxt |-> nxt]
emit(l, t, nxt) == [l |-> AfterEmit(l), out |-> <<EmitItem(l, t)>>, nxt |-> nxt]
\* errorf, had it handed the scan back to lexText instead of returning nil.
errorfGoesOn(l, msg) ==
    [l |-> l, out |-> <<ErrorItem(l, msg)>>, nxt |-> "lexText"]
errorf(l, msg) == [l |-> l, out |-> <<ErrorItem(l, msg)>>, nxt |-> "close"]

\* l.line += strings.Count(l.input[l.start:l.pos], "\n"); SkipTextLines is
\* lexText without that statement.
SkipTextLines(l) == l
AddTextLines(l) ==
    [l EXCEPT !.line = l.line + CountNewlines(Slice(l.input, l.start, l.pos))]

\* if l.pos > l.start, the test lexText makes before it emits its Text item;
\* HasPendingTextAlways is lexText without the test.
HasPendingTextAlways(l) == TRUE
HasPendingText(l) == l.pos > l.start

lexText(l0) ==
    LET l == [l0 EXCEPT !.width = 0]
        x == IndexBrace(l.input, l.pos)
    IN
    IF x >= 0
    THEN LET l1 == [l EXCEPT !.pos = l.pos + x]
             nextFunc == IF HasPrefixAt(l1.input, l1.pos, delimTagStart)
                         THEN "lexTagStart"
                         ELSE IF HasPrefixAt(l1.input, l1.pos, delimVarStart)
                         THEN "lexVarStart"
                         ELSE "none"
         IN
         IF nextFunc = "none"
         THEN errorf(l1, <<"unexpected sequence ", l1.input[l1.pos + 1],
                           ", expected {% or {{">>)
         ELSE IF HasPendingText(l1)
         THEN LET e == emit(AddTextLines(l1), itemText, nextFunc) IN
              [e EXCEPT !.l = ignore(e.l)]
         ELSE Goto(ignore(l1), nextFunc)
    ELSE LET l1 == [l EXCEPT !.pos = Len(l.input)] IN
         IF HasPendingText(l1)
         THEN emit(AddTextLines(l1), itemText, "lexTextEOF")
         ELSE emit(l1, itemEOF, "close")

\* The rest of lexText after its Text item at the end of the input.
lexTextEOF(l) == emit(l, itemEOF, "close")

\* lexTagStart, had it left out l.pos += Pos(len(delimTagStart)).
lexTagStartStays(l) == emit(l, itemTagStart, "lexInsideTag")
lexTagStart(l) ==
    emit([l EXCEPT !.pos = l.pos + Len(delimTagStart)], itemTagStart, "lexInsideTag")
lexTagEnd(l) ==
    emit([l EXCEPT !.pos = l.pos + Len(delimTagEnd)], itemTagEnd, "lexText")
lexVarStart(l) ==
    emit([l EXCEPT !.pos = l.pos + Len(delimVarStart)], itemVarStart, "lexInsideTag")
lexVarEnd(l) ==
    emit([l EXCEPT !.pos = l.pos + Len(delimVarEnd)], itemVarEnd, "lexText")

\* The switch of lexInsideTag on r := l.next(): l1 is the lexer after that
\* call and n2 what a second call of next yields.
lexInsideTagRune(r, l1, n2) ==
    CASE r = eof \/ isEndOfLine(r) -> errorf(l1, <<"unclosed action">>)
      [] isSpace(r) -> Goto(ignore(l1), "lexInsideTag")
      [] r = "!" ->
           IF n2.r # "=" THEN errorf(n2.l, <<"expected = after !">>)
           ELSE emit(n2.l, itemComparison, "lexInsideTag")
      [] r = ">" \/ r = "<" ->
           emit(IF n2.r # "=" THEN backup(n2.l) ELSE n2.l,
                itemComparison, "lexInsideTag")
      [] r = "=" ->
           IF n2.r = "=" THEN emit(n2.l, itemComparison, "lexInsideTag")
           ELSE emit(backup(n2.l), itemAssign, "lexInsideTag")
      [] r = "|" -> emit(l1, itemPipe, "lexInsideTag")
      [] r = "\"" -> Goto(l1, "lexQuote")
      [] r = "'" -> Goto(l1, "lexSingleQuote")
      [] r = "+" \/ r = "-" \/ IsDigit(r) -> Goto(backup(l1), "lexNumber")
      [] isAlphaNumeric(r) /\ ~IsDigit(r) -> Goto(backup(l1), "lexIdentifier")
      [] r = "(" ->
           LET e == emit(l1, itemLeftParen, "lexInsideTag") IN
           [e EXCEPT !.l.parenDepth = l1.parenDepth + 1]
      [] r = ")" ->
           LET e == emit(l1, itemRightParen, "lexInsideTag") IN
           [e EXCEPT !.l.parenDepth = l1.parenDepth - 1,
                     !.nxt = IF l1.parenDepth - 1 < 0
                             THEN "lexRightParenError" ELSE "lexInsideTag"]
      [] OTHER ->
           IF IsPrintASCII(r) THEN emit(l1, itemChar, "lexInsideTag")
           ELSE errorf(l1, <<"unrecognized character in action: ", r>>)

\* lexInsideTagAnyDepth is lexInsideTag without the tests of parenDepth.
lexInsideTagAnyDepth(l) ==
    IF HasPrefixAt(l.input, l.pos, delimTagEnd) THEN Goto(l, "lexTagEnd")
    ELSE IF HasPrefixAt(l.input, l.pos, delimVarEnd) THEN Goto(l, "lexVarEnd")
    ELSE The({The({lexInsideTagRune(n.r, n.l, n2) : n2 \in {next(n.l)}}) :
              n \in {next(l)}})

lexInsideTag(l) ==
    IF HasPrefixAt(l.input, l.pos, delimTagEnd)
    THEN IF l.parenDepth > 0 THEN errorf(l, <<"missing right paren">>)
         ELSE Goto(l, "lexTagEnd")
    ELSE IF HasPrefixAt(l.input, l.pos, delimVarEnd)
    THEN IF l.parenDepth > 0 THEN errorf(l, <<"missing right paren">>)
         ELSE Goto(l, "lexVarEnd")
    ELSE The({The({lexInsideTagRune(n.r, n.l, n2) : n2 \in {next(n.l)}}) :
              n \in {next(l)}})

\* The rest of lexInsideTag's case ')' when parenDepth went negative.
lexRightParenError(l) == errorf(l, <<"unexpected right paren ", ")">>)

DecDigits == Digits \cup {"_"}
HexDigits == Digits \cup {"a", "b", "c", "d", "e", "f", "A", "B", "C", "D", "E", "F", "_"}
OctDigits == {"0", "1", "2", "3", "4", "5", "6", "7", "_"}
BinDigits == {"0", "1", "_"}

\* lexNumber up to the digits: the sign and the base prefix.  [l, digits]
lexNumberBase(l) ==
    The({IF x.ok THEN [l |-> x.l, digits |-> HexDigits]
         ELSE The({IF o.ok THEN [l |-> o.l, digits |-> OctDigits]
                   ELSE The({IF b.ok THEN [l |-> b.l, digits |-> BinDigits]
                             ELSE [l |-> b.l, digits |-> DecDigits] :
                             b \in {accept(o.l, {"b", "B"})}}) :
                   o \in {accept(x.l, {"o", "O"})}}) :
         x \in {accept(l, {"x", "X"})}})

lexNumberPrefix(l) ==
    The({IF z.ok THEN lexNumberBase(z.l) ELSE [l |-> z.l, digits |-> DecDigits] :
         z \in {accept(accept(l, {"+", "-"}).l, {"0"})}})

\* l.acceptRun(digits); if l.accept(".") { l.acceptRun(digits) }
lexNumberMantissa(p) ==
    The({[p EXCEPT !.l = IF dot.ok THEN acceptRun(dot.l, p.digits) ELSE dot.l] :
         dot \in {accept(acceptRun(p.l, p.digits), {"."})}})

\* if len(digits) == size && l.accept(marks) { l.accept("+-"); l.acceptRun(...) }
lexNumberExponent(p, size, marks) ==
    IF Cardinality(p.digits) # size THEN p
    ELSE The({IF e.ok
              THEN [p EXCEPT !.l = acceptRun(accept(e.l, {"+", "-"}).l, DecDigits)]
              ELSE [p EXCEPT !.l = e.l] : e \in {accept(p.l, marks)}})

lexNumber(l) ==
    The({The({The({emit(lexNumberExponent(e, 16 + 6 + 1, {"p", "P"}).l,
                        itemNumber, "lexInsideTag") :
                   e \in {lexNumberExponent(m, 10 + 1, {"e", "E"})}}) :
              m \in {lexNumberMantissa(p)}}) :
         p \in {lexNumberPrefix(l)}})

\* The loop of lexQuote (quote = "\"") and lexSingleQuote (quote = "'"):
\* [l, ok], ok = FALSE for the unterminated string.  quoteLoopOverLines is
\* quoteLoop without the case of the newline.
RECURSIVE quoteLoopOverLines(_, _)
quoteLoopOverLines(l, quote) ==
    The({CASE n.r = "\\" ->
                The({IF n2.r # eof THEN quoteLoopOverLines(n2.l, quote)
                     ELSE [l |-> n2.l, ok |-> FALSE] : n2 \in {next(n.l)}})
           [] n.r = eof -> [l |-> n.l, ok |-> FALSE]
           [] n.r = quote -> [l |-> n.l, ok |-> TRUE]
           [] OTHER -> quoteLoopOverLines(n.l, quote) : n \in {next(l)}})

RECURSIVE quoteLoop(_, _)
quoteLoop(l, quote) ==
    The({CASE n.r = "\\" ->
                The({IF n2.r # eof /\ n2.r # "\n" THEN quoteLoop(n2.l, quote)
                     ELSE [l |-> n2.l, ok |-> FALSE] : n2 \in {next(n.l)}})
           [] n.r = eof \/ n.r = "\n" -> [l |-> n.l, ok |-> FALSE]
           [] n.r = quote -> [l |-> n.l, ok |-> TRUE]
           [] OTHER -> quoteLoop(n.l, quote) : n \in {next(l)}})

lexQuote(l) ==
    The({IF q.ok THEN emit(q.l, itemString, "lexInsideTag")
         ELSE errorf(q.l, <<"unterminated quoted string">>) :
         q \in {quoteLoop(l, "\"")}})

lexSingleQuote(l) ==
    The({IF q.ok THEN emit(q.l, itemString, "lexInsideTag")
         ELSE errorf(q.l, <<"unterminated quoted string">>) :
         q \in {quoteLoop(l, "'")}})

\* typeMap[word]; a missing key reads as the zero value, itemError.
typeMap(word) ==
    CASE word = <<"b", "l", "o", "c", "k">> -> itemBlock
      [] word = <<"i", "f">> -> itemIf
      [] word = <<"e", "l", "s", "e">> -> itemElse
      [] word = <<"e", "l", "i", "f">> -> itemElIf
      [] OTHER -> itemError

RECURSIVE lexIdentifier(_)
lexIdentifier(l) ==
    The({IF isSpace(n.r)
         THEN LET l1 == backup(n.l)
                  word == Slice(l1.input, l1.start, l1.pos)
              IN
              IF typeMap(word) > itemKeyword
              THEN emit(l1, typeMap(word), "lexInsideTag")
              ELSE IF word[1] = "." THEN emit(l1, itemField, "lexInsideTag")
              ELSE IF word = <<"t", "r", "u", "e">>
                      \/ word = <<"f", "a", "l", "s", "e">>
              THEN emit(l1, itemBool, "lexInsideTag")
              ELSE emit(l1, itemIdentifier, "lexInsideTag")
         ELSE IF isAlphaNumeric(n.r) THEN lexIdentifier(n.l)
         ELSE errorf(n.l, <<"bad character ", n.r>>) : n \in {next(l)}})

\* ------------------------------------------------------------------------
\* The tree's nodes (parser.go, tagblock.go, tagif.go)
\* ------------------------------------------------------------------------
\* A nil Node.
NilNode == [kind |-> "nil"]
TextValue(start, text) == [kind |-> "TextValue", Start |-> start, Text |-> text]
StringValue(start, val) == [kind |-> "StringValue", Start |-> start, Val |-> val]
IntValue(start, val) == [kind |-> "IntValue", Start |-> start, Val |-> val]
Comparison(start, type) == [kind |-> "Comparison", Start |-> start, Type |-> type]
Identifier(start, name) == [kind |-> "Identifier", Start |-> start, Name |-> name]
BlockStmt(start, name, body) ==
    [kind |-> "BlockStmt", Start |-> start, Name |-> name, Body |-> body]
IfStmt(start, expression, body, else) ==
    [kind |-> "IfStmt", Start |-> start, Expression |-> expression,
     Body |-> body, Else |-> else]

\* A nil error; an error is its message, a sequence of pieces.
NoErr == <<>>

DigitVal(c) ==
    CASE c = "0" -> 0 [] c = "1" -> 1 [] c = "2" -> 2 [] c = "3" -> 3
      [] c = "4" -> 4 [] c = "5" -> 5 [] c = "6" -> 6 [] c = "7" -> 7
      [] c = "8" -> 8 [] c = "9" -> 9

RECURSIVE DecimalValue(_, _)
DecimalValue(s, acc) ==
    IF s = <<>> THEN acc ELSE DecimalValue(Tail(s), acc * 10 + DigitVal(Head(s)))

\* The largest int of a 64-bit build, 1<<63 - 1, in decimal digits.
MaxIntDigits ==
    <<"9", "2", "2", "3", "3", "7", "2", "0", "3", "6", "8", "5", "4", "7",
      "7", "5", "8", "0", "7">>

\* The decimal digits ds are a value in the range of int, from -1<<63 to
\* 1<<63 - 1, neg telling the sign; zeros in front do not count.
InIntRange(ds, neg) ==
    LET nz == {i \in 1..Len(ds) : ds[i] # "0"}
        sig == IF nz = {} THEN <<>>
               ELSE SubSeq(ds, CHOOSE i \in nz : \A j \in nz : i <= j, Len(ds))
        n == Len(MaxIntDigits)
    IN \/ Len(sig) < n
       \/ /\ Len(sig) = n
          /\ \/ sig = MaxIntDigits
             \/ neg /\ sig = [MaxIntDigits EXCEPT ![n] = "8"]
             \/ \E i \in 1..n :
                   /\ \A j \in 1..(i - 1) : sig[j] = MaxIntDigits[j]
                   /\ DigitVal(sig[i]) < DigitVal(MaxIntDigits[i])

\* strconv.Atoi: [ok, v]; an optional sign, then decimal digits only, and
\* the value within the range of int (ErrRange otherwise).  AtoiUnsigned is
\* Atoi without the sign.
AtoiUnsigned(s) ==
    IF \/ s = <<>>
       \/ \E i \in 1..Len(s) : s[i] \notin Digits
       \/ ~InIntRange(s, FALSE)
    THEN [ok |-> FALSE, v |-> 0]
    ELSE [ok |-> TRUE, v |-> DecimalValue(s, 0)]
Atoi(s) ==
    LET signed == s # <<>> /\ Head(s) \in {"+", "-"}
        neg == signed /\ Head(s) = "-"
        ds == IF signed THEN Tail(s) ELSE s
    IN
    IF \/ ds = <<>>
       \/ \E i \in 1..Len(ds) : ds[i] \notin Digits
       \/ ~InIntRange(ds, neg)
    THEN [ok |-> FALSE, v |-> 0]
    ELSE [ok |-> TRUE,
          v |-> IF neg THEN 0 - DecimalValue(ds, 0) ELSE DecimalValue(ds, 0)]

\* getNumber: [ok, n]
getNumber(tok) ==
    LET a == Atoi(tok.val) IN
    [ok |-> a.ok, n |-> IF a.ok THEN IntValue(tok.pos, a.v) ELSE NilNode]

\* ------------------------------------------------------------------------
\* Execution of the tree (main.go, tagblock.go): a result is [v, err].
\* ------------------------------------------------------------------------
\* Base.Execute: the method of every node that embeds Base and has none of
\* its own, which is every node but BlockStmt.
BaseExecute(n) == [v |-> <<>>, err |-> NoErr]

\* A Node of a type declared outside the package (Node is an interface): its
\* Execute returns out and err.
OtherNode(out, err) == [kind |-> "OtherNode", Start |-> 0, out |-> out, err |-> err]
OtherNodeExecute(n) == [v |-> n.out, err |-> n.err]

\* The method call on a nil Node.
NilExecute == [v |-> <<>>, err |-> <<"panic: nil pointer dereference">>]

RECURSIVE Execute(_)
RECURSIVE ExecuteFrom(_, _)
\* The loop of ExecuteNodes with b the contents of the builder.
ExecuteFrom(nodes, b) ==
    IF nodes = <<>> THEN [v |-> b, err |-> NoErr]
    ELSE The({IF r.err # NoErr THEN [v |-> <<>>, err |-> r.err]
              ELSE ExecuteFrom(Tail(nodes), b \o r.v) : r \in {Execute(Head(nodes))}})

ExecuteNodes(nodes) == ExecuteFrom(nodes, <<>>)

\* BlockStmt.Execute
BlockStmtExecute(b) == ExecuteNodes(b.Body)

\* nodes[idx].Execute(ctx): the method of the node's type.
Execute(n) ==
    CASE n.kind = "nil" -> NilExecute
      [] n.kind = "BlockStmt" -> BlockStmtExecute(n)
      [] n.kind = "OtherNode" -> OtherNodeExecute(n)
      [] OTHER -> BaseExecute(n)

\* ------------------------------------------------------------------------
\* Evaluation of expressions: a result is [v, err].
\* ------------------------------------------------------------------------
\* strconv.ParseBool
ParseBool(str) ==
    CASE str \in {<<"1">>, <<"t">>, <<"T">>, <<"T", "R", "U", "E">>,
                  <<"t", "r", "u", "e">>, <<"T", "r", "u", "e">>} ->
           [v |-> TRUE, err |-> NoErr]
      [] str \in {<<"0">>, <<"f">>, <<"F">>, <<"F", "A", "L", "S", "E">>,
                  <<"f", "a", "l", "s", "e">>, <<"F", "a", "l", "s", "e">>} ->
           [v |-> FALSE, err |-> NoErr]
      [] OTHER -> [v |-> FALSE, err |-> <<"strconv.ParseBool: parsing ">> \o str]

\* The zero exprVal, and the exprVal with one field set.
ZeroExprVal ==
    [Int |-> NilNode, Float |-> NilNode, String |-> NilNode, Identifier |-> NilNode]

\* rv, _ := strconv.Atoi(...): rv is 0 when the string is not an integer.
compareEqual(lhs, rhs) ==
    IF lhs.Int.kind # "nil"
    THEN IF rhs.Int.kind # "nil" THEN lhs.Int.Val = rhs.Int.Val
         ELSE IF rhs.String.kind # "nil" THEN lhs.Int.Val = Atoi(rhs.String.Val).v
         ELSE FALSE
    ELSE FALSE

handleComparison(comparsion, lhs, rhs) ==
    IF comparsion = <<"=", "=">> THEN compareEqual(lhs, rhs) ELSE FALSE

eval1Part(expr) ==
    LET node == expr[1] IN
    CASE node.kind = "IntValue" -> [v |-> node.Val # 0, err |-> NoErr]
      [] node.kind = "StringValue" -> ParseBool(node.Val)
      [] OTHER -> [v |-> FALSE, err |-> <<"unexpected node">>]

\* The switch of eval3Parts on an operand: [ok, val]
Operand(e) ==
    CASE e.kind = "IntValue" -> [ok |-> TRUE, val |-> [ZeroExprVal EXCEPT !.Int = e]]
      [] e.kind = "StringValue" ->
           [ok |-> TRUE, val |-> [ZeroExprVal EXCEPT !.String = e]]
      [] e.kind = "Identifier" ->
           [ok |-> TRUE, val |-> [ZeroExprVal EXCEPT !.Identifier = e]]
      [] OTHER -> [ok |-> FALSE, val |-> ZeroExprVal]

eval3Parts(expr) ==
    LET lhs == Operand(expr[1])
        rhs == Operand(expr[3])
    IN
    IF expr[2].kind # "Comparison"
    THEN [v |-> FALSE, err |-> <<"expected comparison, got">>]
    ELSE IF ~lhs.ok \/ ~rhs.ok THEN [v |-> FALSE, err |-> <<"unexpected node">>]
    ELSE [v |-> handleComparison(expr[2].Type, lhs.val, rhs.val), err |-> NoErr]

\* EvaluateExpression: the one part is the whole expression; a length the
\* switch has no case for leaves ret false and err nil.
EvaluateExpression(expr) ==
    CASE Len(expr) = 0 -> [v |-> FALSE, err |-> <<"emtpy expression">>]
      [] Len(expr) = 1 -> eval1Part(expr)
      [] Len(expr) = 2 ->
           [v |-> FALSE,
            err |-> <<"support for 'not' is not implemented in expressions">>]
      [] Len(expr) = 3 -> eval3Parts(expr)
      [] OTHER -> [v |-> FALSE, err |-> NoErr]

\* ------------------------------------------------------------------------
\* The token stream of the Tree (parser.go).  t holds the Tree's fields
\* items, peekCount and Root; in is what a receive from the channel yields.
\* ------------------------------------------------------------------------
\* The items array has 5 slots, 0..4; ItemsLenTwo is an array of 2 slots.
ItemsLenTwo == 1 + 1
ItemsLen == 5

\* Tree.Next: the Tree afterwards; the token it returns is NextToken.
TreeNext(t, in) ==
    IF t.peekCount > 0 THEN [t EXCEPT !.peekCount = t.peekCount - 1]
    ELSE [t EXCEPT !.items[0] = in]
NextToken(t, in) == TreeNext(t, in).items[TreeNext(t, in).peekCount]

\* Tree.Peek; TreePeekLosesToken is Peek without t.peekCount = 1, so that
\* the following Next receives again.
TreePeekLosesToken(t, in) ==
    IF t.peekCount > 0 THEN t ELSE [t EXCEPT !.items[0] = in]
TreePeek(t, in) ==
    IF t.peekCount > 0 THEN t
    ELSE [t EXCEPT !.peekCount = 1, !.items[0] = in]
PeekToken(t, in) ==
    IF t.peekCount > 0 THEN t.items[t.peekCount - 1] ELSE in

\* Tree.backup; an index past the array panics (TreeBackupPanics).
TreeBackupPanics(t) == t.peekCount >= ItemsLen
TreeBackup(t, i) ==
    [t EXCEPT !.items[t.peekCount] = i, !.peekCount = t.peekCount + 1]

\* The two tokens newIfStmt makes up when it pushes back its closing tag.
VirtualTagEnd == Item(itemTagEnd, 0, <<>>, 0, 0)
VirtualEndif == Item(itemIdentifier, 0, <<"e", "n", "d", "i", "f">>, 0, 0)
endifName == <<"e", "n", "d", "i", "f">>
endblockName == <<"e", "n", "d", "b", "l", "o", "c", "k">>

\* ------------------------------------------------------------------------
\* The parser as a machine.  Parse runs on the caller's goroutine and blocks
\* only in Next and Peek, on the receive from the lexer's channel; a step of
\* the machine is one call of Next or Peek together with the code that
\* follows it up to the next such call.  m holds
\*   t         the Tree (items, peekCount, Root)
\*   stack     the activations of parse, tag, newBlockStmt, newIfStmt,
\*             newElseStmt and ConsumeUntil, innermost last; an activation
\*             holds the function's locals and pc, the call it waits at
\*   ret       what Parse returned: [done, err]
\*   origin    for each slot of items, where its token came from: "chan" (a
\*             receive of a token the lexer sent), "closed" (a receive from
\*             the closed channel), "backup" (pushed by backup) or "none"
\*   consumed  the tokens Next has returned that came from the lexer
\*   eofIn     the functions that were active, outermost first, when Next
\*             returned the lexer's EndOfInput token; <<>> before that
\* origin, consumed and eofIn are history: the code does not read them.
\* ------------------------------------------------------------------------
\* Bodies are kept up to MaxBody nodes: appending to a longer body leaves it
\* as it is.
MaxBody == 8

Frame(fn, pc) ==
    [fn |-> fn, pc |-> pc, n |-> NilNode, body |-> <<>>, expression |-> <<>>,
     elseIfNode |-> NilNode, elseNode |-> NilNode, start |-> ZeroItem,
     token |-> ZeroItem, blockName |-> ZeroItem, it |-> itemError]

Top(m) == m.stack[Len(m.stack)]
SetTop(m, f) == [m EXCEPT !.stack[Len(m.stack)] = f]
Push(m, f) == [m EXCEPT !.stack = Append(m.stack, f)]
Pop(m) == [m EXCEPT !.stack = SubSeq(m.stack, 1, Len(m.stack) - 1)]

\* body = append(body, n)
AppendNode(body, n) == IF Len(body) < MaxBody THEN Append(body, n) ELSE body

\* Next and Peek on the machine.
DoNext(m, in, src) ==
    LET t1 == TreeNext(m.t, in)
        org == IF m.t.peekCount = 0 THEN [m.origin EXCEPT ![0] = src] ELSE m.origin
        token == t1.items[t1.peekCount]
        fromLexer == org[t1.peekCount] = "chan"
    IN [m EXCEPT !.t = t1, !.origin = org,
                 !.consumed = IF fromLexer THEN Append(m.consumed, token)
                              ELSE m.consumed,
                 !.eofIn = IF fromLexer /\ token.typ = itemEOF
                           THEN [i \in 1..Len(m.stack) |-> m.stack[i].fn]
                           ELSE m.eofIn]
DoPeek(m, in, src) ==
    [m EXCEPT !.t = TreePeek(m.t, in),
              !.origin = IF m.t.peekCount = 0 THEN [m.origin EXCEPT ![0] = src]
                         ELSE m.origin]
DoBackup(m, i) ==
    [m EXCEPT !.t = TreeBackup(m.t, i), !.origin[m.t.peekCount] = "backup"]

\* return nil, err in any activation: every caller returns the error at
\* once, so Parse returns it.
Fail(m, msg) == [m EXCEPT !.stack = <<>>, !.ret = [done |-> TRUE, err |-> msg]]
\* A run-time panic (an index out of range) ends Parse too.
Panic(m) == Fail(m, <<"panic: index out of range">>)

\* t.backup(Item{TagEnd}); t.backup(Item{Identifier, "endif"}); t.backup(token)
PushBackEndif(m, token) ==
    IF m.t.peekCount + 3 > ItemsLen THEN Panic(m)
    ELSE DoBackup(DoBackup(DoBackup(m, VirtualTagEnd), VirtualEndif), token)

\* return node, nil: the activation on top ends and its caller goes on, up to
\* the caller's next call of Next.
ReturnNode(m, node) ==
    LET m1 == Pop(m)
        c == Top(m1)
    IN
    CASE c.fn = "parse" ->
           SetTop([m1 EXCEPT !.t.Root = AppendNode(m1.t.Root, node)],
                  [c EXCEPT !.pc = "peek"])
      [] c.fn \in {"newBlockStmt", "newElseStmt"} ->
           SetTop(m1, [c EXCEPT !.n = node, !.body = AppendNode(c.body, node),
                                !.pc = "body"])
      [] c.fn = "newIfStmt" /\ c.pc = "callElIf" ->
           PushBackEndif(SetTop(m1, [c EXCEPT !.elseIfNode = node, !.pc = "body"]),
                         c.token)
      [] c.fn = "newIfStmt" /\ c.pc = "callElse" ->
           PushBackEndif(SetTop(m1, [c EXCEPT !.elseNode = node, !.pc = "body"]),
                         c.token)
      [] c.fn = "newIfStmt" /\ c.pc = "callTag" ->
           SetTop(m1, [c EXCEPT !.n = node, !.body = AppendNode(c.body, node),
                                !.pc = "body"])

\* The node newBlockStmt and newElseStmt build when their loop ends;
\* BlockOfUnnamed is BlockOf without Name: blockName.Val.
BlockOfUnnamed(f) ==
    BlockStmt(IF f.fn = "newBlockStmt" THEN f.blockName.pos ELSE f.start.pos,
              <<>>, f.body)
BlockOf(f) ==
    IF f.fn = "newBlockStmt" THEN BlockStmt(f.blockName.pos, f.blockName.val, f.body)
    ELSE BlockStmt(f.start.pos, <<>>, f.body)

\* The node newIfStmt builds after its loop, from "convert the following
\* pattern" on; IfOfNoElse is IfOf without Else: elseNode.
IfOfNoElse(f) == IfStmt(f.start.pos, f.expression, f.body, NilNode)
IfOf(f) ==
    LET elseNode ==
          IF f.elseIfNode.kind # "nil"
          THEN BlockStmt(f.elseIfNode.Start, <<>>,
                         IF f.elseNode.kind # "nil"
                         THEN <<f.elseIfNode, f.elseNode>> ELSE <<f.elseIfNode>>)
          ELSE f.elseNode
    IN IfStmt(f.start.pos, f.expression, f.body, elseNode)

\* Tree.parse
parseStep(m, in, src) ==
    LET f == Top(m) IN
    IF f.pc = "peek"
    THEN IF PeekToken(m.t, in).typ # itemEOF
         THEN SetTop(DoPeek(m, in, src), [f EXCEPT !.pc = "next"])
         ELSE [DoPeek(m, in, src) EXCEPT !.stack = <<>>,
                                         !.ret = [done |-> TRUE, err |-> NoErr]]
    ELSE LET token == NextToken(m.t, in)
             m1 == DoNext(m, in, src)
         IN
         CASE token.typ = itemText ->
                SetTop([m1 EXCEPT !.t.Root =
                           AppendNode(m1.t.Root, TextValue(token.pos, token.val))],
                       [f EXCEPT !.pc = "peek"])
           [] token.typ = itemTagStart ->
                Push(SetTop(m1, [f EXCEPT !.pc = "callTag"]), Frame("tag", "tagname"))
           [] OTHER -> Fail(m1, <<"expected text or tag, got ">> \o token.val)

\* The node a registered tag's Parse returns.
TagNode(start) == [kind |-> "TagNode", Start |-> start]

\* tag.Parse(t): the activation of the registered tag's Parse.  calls gets a
\* record of the call: the tag's name, the number of the lexer's tokens Next
\* has returned before it (at) and at its return (upto), peekCount, and
\* what the call does later.
CallTagParse(m, tagname) ==
    [SetTop(m, Frame("TagParse", "next")) EXCEPT
        !.calls = Append(m.calls,
                         [name |-> tagname.val, at |-> Len(m.consumed),
                          upto |-> Len(m.consumed),
                          peekCount |-> m.t.peekCount, nexts |-> 0,
                          first |-> ZeroItem, firstSrc |-> "none",
                          result |-> "running", node |-> NilNode,
                          err |-> NoErr])]

\* Tree.newTag; newTagNeverFound is newTag without registered tags and
\* newTagAlwaysFound is newTag without the test on ok.
newTagNeverFound(m, tagname) == Fail(m, <<"unknown tag ">> \o tagname.val)
newTagAlwaysFound(m, tagname) == CallTagParse(m, tagname)
newTag(m, tagname) ==
    IF tagname.val \notin m.t.registeredTags
    THEN Fail(m, <<"unknown tag ">> \o tagname.val)
    ELSE CallTagParse(m, tagname)

\* Tree.tag.  Its calls are its return statements, so the activation of the
\* function it calls takes its place.
tagStep(m, in, src) ==
    LET tagname == NextToken(m.t, in)
        m1 == DoNext(m, in, src)
    IN
    CASE tagname.typ = itemBlock ->
           SetTop(m1, Frame("newBlockStmt", "blockName"))
      [] tagname.typ = itemIf ->
           SetTop(m1, [Frame("newIfStmt", "expression") EXCEPT !.start = m1.t.items[0]])
      [] tagname.typ = itemIdentifier -> newTag(m1, tagname)
      [] OTHER -> Fail(m1, <<"unknown tag ">> \o tagname.val)

\* t.ConsumeUntil(ItemTagEnd) at a closing tag, then break Loop: the activation
\* that ConsumeUntil returns to builds its node and returns it.
ReturnFromConsume(m) ==
    LET m1 == Pop(m)
        c == Top(m1)
    IN ReturnNode(m1, IF c.fn = "newIfStmt" THEN IfOf(c) ELSE BlockOf(c))

\* Tree.ConsumeUntil
ConsumeUntilStep(m, in, src) ==
    LET token == NextToken(m.t, in)
        m1 == DoNext(m, in, src)
    IN IF token.typ # itemEOF /\ token.typ # Top(m).it THEN m1
       ELSE ReturnFromConsume(m1)

ConsumeUntilFrame(it) == [Frame("ConsumeUntil", "next") EXCEPT !.it = it]

\* The body loop of newBlockStmt and of newElseStmt: token := t.Next() and the
\* switch on it.  closer is the tag name that ends the loop.
BodyLoopStep(m, in, src) ==
    LET f == Top(m)
        token == NextToken(m.t, in)
        m1 == DoNext(m, in, src)
    IN
    CASE token.typ = itemEOF -> ReturnNode(m1, BlockOf(f))
      [] token.typ = itemText ->
           LET n == TextValue(token.pos, token.val) IN
           SetTop(m1, [f EXCEPT !.n = n, !.body = AppendNode(f.body, n)])
      [] token.typ = itemTagStart -> SetTop(m1, [f EXCEPT !.pc = "tagname"])
      [] OTHER -> SetTop(m1, [f EXCEPT !.body = AppendNode(f.body, f.n)])

\* tagname := t.Peek() in a body loop, and what follows it.
BodyTagnameStep(m, in, src, closer) ==
    LET f == Top(m)
        tagname == PeekToken(m.t, in)
        m1 == DoPeek(m, in, src)
    IN
    IF tagname.typ = itemIdentifier /\ tagname.val = closer
    THEN Push(SetTop(m1, [f EXCEPT !.pc = "callConsume"]), ConsumeUntilFrame(itemTagEnd))
    ELSE Push(SetTop(m1, [f EXCEPT !.pc = "callTag"]), Frame("tag", "tagname"))

\* Parse of a registered tag.  Its code is the caller's; what the Stepper
\* lets it do is modelled: it calls Next, at least once, and after each call
\* it goes on ("more"), returns a node ("node") or returns an error
\* ("error").  It does not go on after EndOfInput or an Error token.
TagParseStep(m, in, src, outcome) ==
    LET token == NextToken(m.t, in)
        m1 == DoNext(m, in, src)
        k == Len(m.calls)
        c == m.calls[k]
        c1 == IF c.nexts = 0
              THEN [c EXCEPT !.nexts = 1, !.first = token,
                             !.firstSrc = m1.origin[m1.t.peekCount]]
              ELSE c
    IN
    CASE outcome = "more" -> [m1 EXCEPT !.calls[k] = c1]
      [] outcome = "node" ->
           ReturnNode([m1 EXCEPT !.calls[k] =
                          [c1 EXCEPT !.result = "node", !.node = TagNode(token.pos),
                                     !.upto = Len(m1.consumed)]],
                      TagNode(token.pos))
      [] outcome = "error" ->
           Fail([m1 EXCEPT !.calls[k] =
                    [c1 EXCEPT !.result = "error", !.err = <<"tag: ">> \o token.val,
                               !.upto = Len(m1.consumed)]],
                <<"tag: ">> \o token.val)

\* Tree.newBlockStmt
newBlockStmtStep(m, in, src) ==
    LET f == Top(m) IN
    CASE f.pc = "blockName" ->
           LET blockName == NextToken(m.t, in) IN
           IF blockName.typ # itemIdentifier
           THEN Fail(DoNext(m, in, src), <<"expected identifier, got ">> \o blockName.val)
           ELSE SetTop(DoNext(m, in, src),
                       [f EXCEPT !.blockName = blockName, !.pc = "tagEnd"])
      [] f.pc = "tagEnd" ->
           IF NextToken(m.t, in).typ # itemTagEnd
           THEN SetTop(DoNext(m, in, src), [f EXCEPT !.pc = "errPeek"])
           ELSE SetTop(DoNext(m, in, src), [f EXCEPT !.pc = "body"])
      [] f.pc = "errPeek" ->
           Fail(DoPeek(m, in, src),
                <<"expected end tag, got ">> \o PeekToken(m.t, in).val)
      [] f.pc = "body" -> BodyLoopStep(m, in, src)
      [] f.pc = "tagname" -> BodyTagnameStep(m, in, src, endblockName)

\* Tree.newElseStmt
newElseStmtStep(m, in, src) ==
    LET f == Top(m) IN
    CASE f.pc = "start" ->
           SetTop(DoNext(m, in, src),
                  [f EXCEPT !.start = NextToken(m.t, in), !.pc = "tagEnd"])
      [] f.pc = "tagEnd" ->
           LET token == NextToken(m.t, in) IN
           IF token.typ # itemTagEnd
           THEN Fail(DoNext(m, in, src),
                     <<"unexpected extra arguments to 'else' statement: ">> \o token.val)
           ELSE SetTop(DoNext(m, in, src), [f EXCEPT !.pc = "body"])
      [] f.pc = "body" -> BodyLoopStep(m, in, src)
      [] f.pc = "tagname" -> BodyTagnameStep(m, in, src, endifName)

\* Tree.newIfStmt
newIfStmtStep(m, in, src) ==
    LET f == Top(m) IN
    CASE f.pc = "expression" ->
           LET token == NextToken(m.t, in)
               m1 == DoNext(m, in, src)
               num == getNumber(token)
               add(n) == SetTop(m1, [f EXCEPT !.n = n,
                                              !.expression = AppendNode(f.expression, n)])
           IN
           CASE token.typ = itemTagEnd -> SetTop(m1, [f EXCEPT !.pc = "body"])
             [] token.typ = itemEOF -> Fail(m1, <<"expected end of tag, got EOF">>)
             [] token.typ = itemString -> add(StringValue(token.pos, token.val))
             [] token.typ = itemNumber ->
                  IF num.ok THEN add(num.n)
                  ELSE Fail(m1, <<"strconv.Atoi: parsing ">> \o token.val)
             [] token.typ = itemComparison -> add(Comparison(token.pos, token.val))
             [] token.typ = itemIdentifier -> add(Identifier(token.pos, token.val))
             [] OTHER -> Fail(m1, <<"unexpected token in expression: ">> \o token.val)
      [] f.pc = "body" ->
           LET token == NextToken(m.t, in)
               m1 == DoNext(m, in, src)
           IN
           CASE token.typ = itemEOF ->
                  Fail(m1, <<"expected 'endif'-tag, got end-of-file">>)
             [] token.typ = itemText ->
                  LET n == TextValue(token.pos, token.val) IN
                  SetTop(m1, [f EXCEPT !.token = token, !.n = n,
                                       !.body = AppendNode(f.body, n)])
             [] token.typ = itemTagStart ->
                  SetTop(m1, [f EXCEPT !.token = token, !.pc = "tagname"])
             [] OTHER ->
                  SetTop(m1, [f EXCEPT !.token = token,
                                       !.body = AppendNode(f.body, f.n)])
      [] f.pc = "tagname" ->
           LET tagname == PeekToken(m.t, in)
               m1 == DoPeek(m, in, src)
           IN
           CASE tagname.typ = itemElIf ->
                  Push(SetTop(m1, [f EXCEPT !.pc = "callElIf"]),
                       [Frame("newIfStmt", "expression") EXCEPT !.start = m1.t.items[0]])
             [] tagname.typ = itemElse ->
                  Push(SetTop(m1, [f EXCEPT !.pc = "callElse"]),
                       Frame("newElseStmt", "start"))
             [] tagname.typ = itemIdentifier /\ tagname.val = endifName ->
                  Push(SetTop(m1, [f EXCEPT !.pc = "callConsume"]),
                       ConsumeUntilFrame(itemTagEnd))
             [] OTHER ->
                  Push(SetTop(m1, [f EXCEPT !.pc = "callTag"]), Frame("tag", "tagname"))

\* ------------------------------------------------------------------------
\* Inputs
\* ------------------------------------------------------------------------
SegText == <<"x">>
SegIf == <<"{", "%", " ", "i", "f", " ", "a", " ", "%", "}">>
SegElif == <<"{", "%", " ", "e", "l", "i", "f", " ", "b", " ", "%", "}">>
SegElse == <<"{", "%", " ", "e", "l", "s", "e", " ", "%", "}">>
SegEndif == <<"{", "%", " ", "e", "n", "d", "i", "f", " ", "%", "}">>
SegBlock == <<"{", "%", " ", "b", "l", "o", "c", "k", " ", "c", " ", "%", "}">>
SegEndblock == <<"{", "%", " ", "e", "n", "d", "b", "l", "o", "c", "k", " ", "%", "}">>
SegBrace == <<"{">>
Segments ==
    {SegText, SegIf, SegElif, SegElse, SegEndif, SegBlock, SegEndblock, SegBrace}

\* The templates made of at most MaxSegs segments.
MaxSegs == 4
RECURSIVE SegInputs(_)
SegInputs(n) ==
    IF n = 0 THEN {<<>>}
    ELSE LET S == SegInputs(n - 1) IN S \cup {s \o g : s \in S, g \in Segments}

\* Templates of the specification and of main, and one for each part of the
\* lexical grammar that the segments do not reach.
\* {% if 1 == 2 %}A{% else %}B{% endif %}
InIfElseInt ==
    <<"{", "%", " ", "i", "f", " ", "1", " ", "=", "=", " ", "2", " ", "%",
      "}", "A", "{", "%", " ", "e", "l", "s", "e", " ", "%", "}", "B", "{",
      "%", " ", "e", "n", "d", "i", "f", " ", "%", "}">>

\* {% if 1 == 1 %}A{% else %}B{% endif %}
InIfElseEq ==
    <<"{", "%", " ", "i", "f", " ", "1", " ", "=", "=", " ", "1", " ", "%",
      "}", "A", "{", "%", " ", "e", "l", "s", "e", " ", "%", "}", "B", "{",
      "%", " ", "e", "n", "d", "i", "f", " ", "%", "}">>

\* {% if 1 == "1" %}yes{% else %}no{% endif %}
InIfElseStr ==
    <<"{", "%", " ", "i", "f", " ", "1", " ", "=", "=", " ", "\"", "1", "\"",
      " ", "%", "}", "y", "e", "s", "{", "%", " ", "e", "l", "s", "e", " ",
      "%", "}", "n", "o", "{", "%", " ", "e", "n", "d", "i", "f", " ", "%",
      "}">>

\* {% if a %}1{% elif b %}2{% endif %}
InElif ==
    <<"{", "%", " ", "i", "f", " ", "a", " ", "%", "}", "1", "{", "%", " ",
      "e", "l", "i", "f", " ", "b", " ", "%", "}", "2", "{", "%", " ", "e",
      "n", "d", "i", "f", " ", "%", "}">>

\* {% if a %}1{% else %}{% if b %}2{% endif %}{% endif %}
InElseIf ==
    <<"{", "%", " ", "i", "f", " ", "a", " ", "%", "}", "1", "{", "%", " ",
      "e", "l", "s", "e", " ", "%", "}", "{", "%", " ", "i", "f", " ", "b",
      " ", "%", "}", "2", "{", "%", " ", "e", "n", "d", "i", "f", " ", "%",
      "}", "{", "%", " ", "e", "n", "d", "i", "f", " ", "%", "}">>

\* {% block a %}{% block b %}x{% endblock %}{% endblock %}
InNested ==
    <<"{", "%", " ", "b", "l", "o", "c", "k", " ", "a", " ", "%", "}", "{",
      "%", " ", "b", "l", "o", "c", "k", " ", "b", " ", "%", "}", "x", "{",
      "%", " ", "e", "n", "d", "b", "l", "o", "c", "k", " ", "%", "}", "{",
      "%", " ", "e", "n", "d", "b", "l", "o", "c", "k", " ", "%", "}">>

\* {% block a %}{% block b %}x{% endblock %}y{% endblock %}
InNestedTail ==
    <<"{", "%", " ", "b", "l", "o", "c", "k", " ", "a", " ", "%", "}", "{",
      "%", " ", "b", "l", "o", "c", "k", " ", "b", " ", "%", "}", "x", "{",
      "%", " ", "e", "n", "d", "b", "l", "o", "c", "k", " ", "%", "}", "y",
      "{", "%", " ", "e", "n", "d", "b", "l", "o", "c", "k", " ", "%", "}">>

\* {% block a %}{% block b %}{% block c %}x{% endblock %}{% endblock %}{% endblock %}
InNested3 ==
    <<"{", "%", " ", "b", "l", "o", "c", "k", " ", "a", " ", "%", "}", "{",
      "%", " ", "b", "l", "o", "c", "k", " ", "b", " ", "%", "}", "{", "%",
      " ", "b", "l", "o", "c", "k", " ", "c", " ", "%", "}", "x", "{", "%",
      " ", "e", "n", "d", "b", "l", "o", "c", "k", " ", "%", "}", "{", "%",
      " ", "e", "n", "d", "b", "l", "o", "c", "k", " ", "%", "}", "{", "%",
      " ", "e", "n", "d", "b", "l", "o", "c", "k", " ", "%", "}">>

\* {% bleep %}in bleep{% endbleep %}
InUnknownTag ==
    <<"{", "%", " ", "b", "l", "e", "e", "p", " ", "%", "}", "i", "n", " ",
      "b", "l", "e", "e", "p", "{", "%", " ", "e", "n", "d", "b", "l", "e",
      "e", "p", " ", "%", "}">>

\* x{{ a }}
InVar ==
    <<"x", "{", "{", " ", "a", " ", "}", "}">>

\* {% block c %}{{ a }}{% endblock %}
InBlockVar ==
    <<"{", "%", " ", "b", "l", "o", "c", "k", " ", "c", " ", "%", "}", "{",
      "{", " ", "a", " ", "}", "}", "{", "%", " ", "e", "n", "d", "b", "l",
      "o", "c", "k", " ", "%", "}">>

\* {% block c %}x{{ a }}{% endblock %}
InBlockTextVar ==
    <<"{", "%", " ", "b", "l", "o", "c", "k", " ", "c", " ", "%", "}", "x",
      "{", "{", " ", "a", " ", "}", "}", "{", "%", " ", "e", "n", "d", "b",
      "l", "o", "c", "k", " ", "%", "}">>

\* {% block c %}{% endblock }}{% endif %}
InEndblockVarEnd ==
    <<"{", "%", " ", "b", "l", "o", "c", "k", " ", "c", " ", "%", "}", "{",
      "%", " ", "e", "n", "d", "b", "l", "o", "c", "k", " ", "}", "}", "{",
      "%", " ", "e", "n", "d", "i", "f", " ", "%", "}">>

\* {% if a %}x{% else x %}y{% endif %}
InElseArgument ==
    <<"{", "%", " ", "i", "f", " ", "a", " ", "%", "}", "x", "{", "%", " ",
      "e", "l", "s", "e", " ", "x", " ", "%", "}", "y", "{", "%", " ", "e",
      "n", "d", "i", "f", " ", "%", "}">>

\* {% if a ) %}x{% endif %}
InRightParen ==
    <<"{", "%", " ", "i", "f", " ", "a", " ", ")", " ", "%", "}", "x", "{",
      "%", " ", "e", "n", "d", "i", "f", " ", "%", "}">>

\* {% if a %}{% endif ) %}
InEndifRightParen ==
    <<"{", "%", " ", "i", "f", " ", "a", " ", "%", "}", "{", "%", " ", "e",
      "n", "d", "i", "f", " ", ")", " ", "%", "}">>

\* {% if ( a ) %}x{% endif %}
InParens ==
    <<"{", "%", " ", "i", "f", " ", "(", " ", "a", " ", ")", " ", "%", "}",
      "x", "{", "%", " ", "e", "n", "d", "i", "f", " ", "%", "}">>

\* {% if 'a' %}x{% endif %}
InSingleQuote ==
    <<"{", "%", " ", "i", "f", " ", "'", "a", "'", " ", "%", "}", "x", "{",
      "%", " ", "e", "n", "d", "i", "f", " ", "%", "}">>

\* {% block c %}{% endblock \n
InEndblockUnclosed ==
    <<"{", "%", " ", "b", "l", "o", "c", "k", " ", "c", " ", "%", "}", "{",
      "%", " ", "e", "n", "d", "b", "l", "o", "c", "k", " ", "\n">>

\* {% if 0x1F %}x{% endif %}
InNotANumber ==
    <<"{", "%", " ", "i", "f", " ", "0", "x", "1", "F", " ", "%", "}", "x",
      "{", "%", " ", "e", "n", "d", "i", "f", " ", "%", "}">>

\* x{% bleep %}y
InBleepText ==
    <<"x", "{", "%", " ", "b", "l", "e", "e", "p", " ", "%", "}", "y">>

\* {% block c %}{% bleep %}{% endblock %}
InBleepInBlock ==
    <<"{", "%", " ", "b", "l", "o", "c", "k", " ", "c", " ", "%", "}", "{",
      "%", " ", "b", "l", "e", "e", "p", " ", "%", "}", "{", "%", " ", "e",
      "n", "d", "b", "l", "o", "c", "k", " ", "%", "}">>

\* {% if a %}{% bleep %}{% else %}{% bleep %}{% endif %}
InBleepInIfElse ==
    <<"{", "%", " ", "i", "f", " ", "a", " ", "%", "}", "{", "%", " ", "b",
      "l", "e", "e", "p", " ", "%", "}", "{", "%", " ", "e", "l", "s", "e",
      " ", "%", "}", "{", "%", " ", "b", "l", "e", "e", "p", " ", "%", "}",
      "{", "%", " ", "e", "n", "d", "i", "f", " ", "%", "}">>

NamedInputs ==
    {InIfElseInt,
     InIfElseEq,
     InIfElseStr,
     InElif,
     InElseIf,
     InNested,
     InNestedTail,
     InNested3,
     InUnknownTag,
     InBleepText,
     InBleepInBlock,
     InBleepInIfElse,
     InVar,
     InBlockVar,
     InBlockTextVar,
     InEndblockVarEnd,
     InElseArgument,
     InRightParen,
     InEndifRightParen,
     InParens,
     InSingleQuote,
     InEndblockUnclosed,
     InNotANumber}

\* The expressions of the if tags of IfExprInputs: +5, -3, 07, 1.5, 1e5, 1_0,
\* +, 99999999999999999999, a | b, true, a = 1, else, 1 < 2, and a }} that
\* closes the tag with the wrong delimiter.
ExprTexts ==
    {<<"+", "5">>,
     <<"-", "3">>,
     <<"0", "7">>,
     <<"1", ".", "5">>,
     <<"1", "e", "5">>,
     <<"1", "_", "0">>,
     <<"+">>,
     <<"9", "9", "9", "9", "9", "9", "9", "9", "9", "9", "9", "9", "9", "9", "9", "9", "9", "9", "9", "9">>,
     <<"a", " ", "|", " ", "b">>,
     <<"t", "r", "u", "e">>,
     <<"a", " ", "=", " ", "1">>,
     <<"e", "l", "s", "e">>,
     <<"1", " ", "<", " ", "2">>,
     <<"a", " ", "}", "}">>}

\* {% if E %}x{% endif %}
IfExprInput(E) ==
    <<"{", "%", " ", "i", "f", " ">> \o E
    \o <<" ", "%", "}", "x", "{", "%", " ", "e", "n", "d", "i", "f", " ", "%", "}">>
IfExprInputs == {IfExprInput(E) : E \in ExprTexts}

\* {% if a : the input ends in the expression
InIfUnclosed == <<"{", "%", " ", "i", "f", " ", "a">>

Inputs == SegInputs(MaxSegs) \cup NamedInputs \cup IfExprInputs \cup {InIfUnclosed}

\* The templates parsed with a tag registered, and the name it is registered
\* under: t.RegisterTag("bleep", ...) before t.Parse.
bleepName == <<"b", "l", "e", "e", "p">>
TagInputs == {InUnknownTag, InBleepText, InBleepInBlock, InBleepInIfElse}

\* ------------------------------------------------------------------------
\* The system: the lexer goroutine, the channel, the parser
\* ------------------------------------------------------------------------
VARIABLES
    l,          \* the lexer struct
    lstate,     \* the state function run is about to call; "close", "done"
    chq,        \* the items sent on l.items and not yet received
    closed,     \* l.items is closed
    emitted,    \* history: the items the lexer has sent
    t,          \* the Tree: items, peekCount, Root
    stack,      \* the parser's activations
    ret,        \* what Parse returned
    origin,     \* history: where each slot of t.items came from
    consumed,   \* history: the lexer's tokens that Next has returned
    eofIn,      \* history: the functions active when Next returned EndOfInput
    calls,      \* history: the calls of a registered tag's Parse
    output,     \* what ExecuteNodes returned for Root: [done, v, err]
    expression, \* the expression handed to EvaluateExpression
    evaluated,  \* what EvaluateExpression returned: [done, v, err]
    parses,     \* the number of calls of Parse on the Tree so far
    nodeList,   \* the nodes handed to ExecuteNodes or to walk
    idx,        \* ExecuteNodes: the number of nodes executed so far
    builder,    \* ExecuteNodes: the contents of the strings.Builder
    executed,   \* what ExecuteNodes returned: [done, v, err]
    skip,       \* walk: the nodes for which the visit function returns nil
    visits,     \* walk: the calls of the visit function, [done, calls]
    twin        \* a second, fresh Tree and its lexer, or NoTwin

vars ==
    <<l, lstate, chq, closed, emitted, t, stack, ret, origin, consumed, eofIn,
      calls, output, expression, evaluated, parses, nodeList, idx, builder,
      executed, skip, visits, twin>>
lexerVars == <<l, lstate, closed, emitted>>
parserVars == <<t, stack, ret, origin, consumed, eofIn, calls>>
evalVars == <<expression, evaluated>>
execVars == <<nodeList, idx, builder, executed>>
walkVars == <<skip, visits>>
restVars == <<evalVars, execVars, walkVars, parses, twin>>

\* l.items <- item on the unbuffered channel make(chan item): the send is
\* over when the item has been received, and the lexer runs on only then.
\* SendBlockedBuffered is the send on make(chan item, 1).
SendBlockedBuffered(q) == Len(q) > 1
SendBlocked(q) == q # <<>>

\* A receive that does not wait for the lexer (select with a default case).
CanRecvNonBlocking == TRUE
\* <-t.lex.items: possible when a sender waits or the channel is closed.
CanRecv == chq # <<>> \/ closed
RecvItem == IF chq # <<>> THEN Head(chq) ELSE ZeroItem
RecvSrc == IF chq # <<>> THEN "chan" ELSE "closed"

Machine ==
    [t |-> t, stack |-> stack, ret |-> ret, origin |-> origin,
     consumed |-> consumed, eofIn |-> eofIn, calls |-> calls]

\* Root has not been executed; no expression has been evaluated.
NotRun == [done |-> FALSE, v |-> <<>>, err |-> NoErr]
NotEvaluated == [done |-> FALSE, v |-> FALSE, err |-> NoErr]
NotWalked == [done |-> FALSE, calls |-> <<>>]

EvalIdle == expression = <<>> /\ evaluated = NotEvaluated
ExecIdle == nodeList = <<>> /\ idx = 0 /\ builder = <<>> /\ executed = NotRun
WalkIdle == skip = {} /\ visits = NotWalked

\* No second Tree.
NoTwin == [lstate |-> "none"]

\* Parse, after lex() has started the goroutine and parse has set Root, on a
\* Tree on which RegisterTag has been called for the names in registered.
ParseInit(in, stk, registered) ==
    /\ l = NewLexer(in)
    /\ lstate = "lexText"
    /\ chq = <<>>
    /\ closed = FALSE
    /\ emitted = <<>>
    /\ t = [items |-> [i \in 0..(ItemsLen - 1) |-> ZeroItem], peekCount |-> 0,
            Root |-> <<>>, registeredTags |-> registered]
    /\ stack = stk
    /\ ret = [done |-> FALSE, err |-> NoErr]
    /\ origin = [i \in 0..(ItemsLen - 1) |-> "none"]
    /\ consumed = <<>>
    /\ eofIn = <<>>
    /\ calls = <<>>
    /\ output = NotRun
    /\ parses = Len(stk)

\* NewTree and the first statements of Parse.
NewTree(registered) ==
    [items |-> [i \in 0..(ItemsLen - 1) |-> ZeroItem], peekCount |-> 0,
     Root |-> <<>>, registeredTags |-> registered]
NotReturned == [done |-> FALSE, err |-> NoErr]
NoOrigin == [i \in 0..(ItemsLen - 1) |-> "none"]

InitTree(in, first, registered) ==
    /\ ParseInit(in, <<first>>, registered)
    /\ EvalIdle
    /\ ExecIdle
    /\ WalkIdle
    /\ twin = NoTwin

\* NewTree registers no tag.
InitWith(in, first) == InitTree(in, first, {})

Init ==
    \/ \E in \in Inputs : InitWith(in, Frame("parse", "peek"))
    \/ \E in \in TagInputs : InitTree(in, Frame("parse", "peek"), {bleepName})

\* One call of a state function by run: res is what the function yields.
LexerStep(res) ==
    /\ ~SendBlocked(chq)
    /\ l' = res.l
    /\ lstate' = res.nxt
    /\ chq' = chq \o res.out
    /\ emitted' = emitted \o res.out
    /\ UNCHANGED <<closed, parserVars, output, restVars>>

LexText ==
    /\ lstate = "lexText"
    /\ LexerStep(lexText(l))
LexTextEOF ==
    /\ lstate = "lexTextEOF"
    /\ LexerStep(lexTextEOF(l))
LexTagStart ==
    /\ lstate = "lexTagStart"
    /\ LexerStep(lexTagStart(l))
LexTagEnd ==
    /\ lstate = "lexTagEnd"
    /\ LexerStep(lexTagEnd(l))
LexVarStart ==
    /\ lstate = "lexVarStart"
    /\ LexerStep(lexVarStart(l))
LexVarEnd ==
    /\ lstate = "lexVarEnd"
    /\ LexerStep(lexVarEnd(l))
LexInsideTag ==
    /\ lstate = "lexInsideTag"
    /\ LexerStep(lexInsideTag(l))
LexRightParenError ==
    /\ lstate = "lexRightParenError"
    /\ LexerStep(lexRightParenError(l))
LexNumber ==
    /\ lstate = "lexNumber"
    /\ LexerStep(lexNumber(l))
LexQuote ==
    /\ lstate = "lexQuote"
    /\ LexerStep(lexQuote(l))
LexSingleQuote ==
    /\ lstate = "lexSingleQuote"
    /\ LexerStep(lexSingleQuote(l))
LexIdentifier ==
    /\ lstate = "lexIdentifier"
    /\ LexerStep(lexIdentifier(l))

\* run: the state is nil, close(l.items).
LexClose ==
    /\ lstate = "close"
    /\ ~SendBlocked(chq)
    /\ closed' = TRUE
    /\ lstate' = "done"
    /\ UNCHANGED <<l, chq, emitted, parserVars, output, restVars>>

LexerNext ==
    \/ LexText \/ LexTextEOF \/ LexTagStart \/ LexTagEnd \/ LexVarStart
    \/ LexVarEnd \/ LexInsideTag \/ LexRightParenError \/ LexNumber \/ LexQuote
    \/ LexSingleQuote \/ LexIdentifier \/ LexClose

\* The activation on top is one of fn and its call of Next or Peek can go on:
\* a token is pending in items, or the receive is possible.
ParserReady(fn) ==
    /\ stack # <<>>
    /\ stack[Len(stack)].fn = fn
    /\ t.peekCount = 0 => CanRecv

\* The step to machine m; it received from the channel if nothing was pending.
ParserStep(m) ==
    /\ t' = m.t
    /\ stack' = m.stack
    /\ ret' = m.ret
    /\ origin' = m.origin
    /\ consumed' = m.consumed
    /\ eofIn' = m.eofIn
    /\ calls' = m.calls
    /\ chq' = IF t.peekCount = 0 /\ chq # <<>> THEN Tail(chq) ELSE chq
    /\ UNCHANGED <<lexerVars, output, restVars>>

ParseAct ==
    /\ ParserReady("parse")
    /\ ParserStep(parseStep(Machine, RecvItem, RecvSrc))
TagAct ==
    /\ ParserReady("tag")
    /\ ParserStep(tagStep(Machine, RecvItem, RecvSrc))
NewBlockStmtAct ==
    /\ ParserReady("newBlockStmt")
    /\ ParserStep(newBlockStmtStep(Machine, RecvItem, RecvSrc))
NewIfStmtAct ==
    /\ ParserReady("newIfStmt")
    /\ ParserStep(newIfStmtStep(Machine, RecvItem, RecvSrc))
NewElseStmtAct ==
    /\ ParserReady("newElseStmt")
    /\ ParserStep(newElseStmtStep(Machine, RecvItem, RecvSrc))
ConsumeUntilAct ==
    /\ ParserReady("ConsumeUntil")
    /\ ParserStep(ConsumeUntilStep(Machine, RecvItem, RecvSrc))

TagParseAct ==
    /\ ParserReady("TagParse")
    /\ \E outcome \in {"more", "node", "error"} :
          /\ outcome = "more" => NextToken(t, RecvItem).typ \notin {itemEOF, itemError}
          /\ ParserStep(TagParseStep(Machine, RecvItem, RecvSrc, outcome))

ParserNext ==
    \/ ParseAct \/ TagAct \/ NewBlockStmtAct \/ NewIfStmtAct \/ NewElseStmtAct
    \/ ConsumeUntilAct \/ TagParseAct

\* The caller executes the tree once Parse has returned.
ExecuteRoot ==
    /\ ret.done
    /\ ~output.done
    /\ output' = The({[done |-> TRUE, v |-> r.v, err |-> r.err] :
                       r \in {ExecuteNodes(t.Root)}})
    /\ UNCHANGED <<lexerVars, chq, parserVars, restVars>>

Next == LexerNext \/ ParserNext \/ ExecuteRoot

Spec == Init /\ [][Next]_vars

\* ------------------------------------------------------------------------
\* The lexer on its own: the consumer is a loop of Tree.consume, which
\* receives each item and drops it
\* ------------------------------------------------------------------------
\* The bytes the generated inputs are made of.
LexAlphabet ==
    {"{", "%", "}", " ", "\n", "a", "1", "(", ")", "\"", "\\", "="}

\* The byte strings of at most n bytes over LexAlphabet.
MaxLexLen == 2
RECURSIVE Words(_)
Words(n) ==
    IF n = 0 THEN {<<>>}
    ELSE LET W == Words(n - 1) IN W \cup {w \o <<c>> : w \in W, c \in LexAlphabet}

\* A word as text, inside a tag and inside a variable, open or closed.
LexPrefixes == {<<>>, <<"{", "%", " ">>, <<"{", "{", " ">>}
LexSuffixes == {<<>>, <<" ", "%", "}">>, <<" ", "}", "}">>}

\* {% 0x1F.8p-3 %}
LexHexFloat ==
    <<"{", "%", " ", "0", "x", "1", "F", ".", "8", "p", "-", "3", " ", "%",
      "}">>

\* {{ -1_0.5e+7 }}
LexDecFloat ==
    <<"{", "{", " ", "-", "1", "_", "0", ".", "5", "e", "+", "7", " ", "}",
      "}">>

\* {% 0o17 0b1 +9 %}
LexOctal ==
    <<"{", "%", " ", "0", "o", "1", "7", " ", "0", "b", "1", " ", "+", "9",
      " ", "%", "}">>

\* {% a != b <= c < d == e = f | g %}
LexOperators ==
    <<"{", "%", " ", "a", " ", "!", "=", " ", "b", " ", "<", "=", " ", "c",
      " ", "<", " ", "d", " ", "=", "=", " ", "e", " ", "=", " ", "f", " ",
      "|", " ", "g", " ", "%", "}">>

\* {% !a %}
LexBang ==
    <<"{", "%", " ", "!", "a", " ", "%", "}">>

\* {% .f true false _x %}
LexWords ==
    <<"{", "%", " ", ".", "f", " ", "t", "r", "u", "e", " ", "f", "a", "l",
      "s", "e", " ", "_", "x", " ", "%", "}">>

\* {{ "a\"b" 'c\'d' }}
LexQuotes ==
    <<"{", "{", " ", "\"", "a", "\\", "\"", "b", "\"", " ", "'", "c", "\\",
      "'", "d", "'", " ", "}", "}">>

\* {% e-acute tab %} e-acute, the letter in its two-byte encoding
LexRune ==
    <<"{", "%", " ", "C3", "A9", " ", "\t", " ", "%", "}", "C3", "A9">>

\* {% and the stray continuation byte A9
LexBadRune ==
    <<"{", "%", " ", "A9">>

\* {% a and a carriage return
LexCR ==
    <<"{", "%", " ", "a", " ", "\r">>

\* x\ny\n{% a %}\nz
LexLines ==
    <<"x", "\n", "y", "\n", "{", "%", " ", "a", " ", "%", "}", "\n", "z">>

\* {% 'a\ : the input ends after the backslash
LexEscapeAtEnd ==
    <<"{", "%", " ", "'", "a", "\\">>

\* {% "a\n" %} : a newline in a quoted string
LexQuoteNewline ==
    <<"{", "%", " ", "\"", "a", "\n", "\"", " ", "%", "}">>

NamedLexInputs ==
    {LexHexFloat,
     LexEscapeAtEnd,
     LexQuoteNewline,
     LexDecFloat,
     LexOctal,
     LexOperators,
     LexBang,
     LexWords,
     LexQuotes,
     LexRune,
     LexBadRune,
     LexCR,
     LexLines}

LexInputs ==
    {p \o w \o x : p \in LexPrefixes, w \in Words(MaxLexLen), x \in LexSuffixes}
        \cup NamedInputs \cup NamedLexInputs

LexInit == \E in \in LexInputs : InitWith(in, Frame("consume", "recv"))

\* Tree.consume: the Tree afterwards.
TreeConsume(tr) ==
    IF tr.peekCount > 0 THEN [tr EXCEPT !.peekCount = tr.peekCount - 1] ELSE tr

\* One call of Tree.consume by the draining loop.
Consume ==
    /\ ParserReady("consume")
    /\ t' = TreeConsume(t)
    /\ chq' = IF t.peekCount = 0 /\ chq # <<>> THEN Tail(chq) ELSE chq
    /\ UNCHANGED <<lexerVars, stack, ret, origin, consumed, eofIn, calls,
                   output, restVars>>

LexNext == LexerNext \/ Consume

LexSpec == LexInit /\ [][LexNext]_vars

\* The goroutine of run is scheduled whenever it can go on, and the
\* consumer keeps calling consume.
LexFairSpec == LexSpec /\ WF_vars(LexerNext) /\ WF_vars(Consume)

\* ------------------------------------------------------------------------
\* The evaluator on its own: EvaluateExpression is called once on an
\* expression of at most MaxExprLen nodes drawn from ExprNodes.
\* ------------------------------------------------------------------------
\* The string literal "1" as newIfStmt builds it: Val keeps the quotes.
QuotedOne == <<"\"", "1", "\"">>

ExprNodes ==
    {IntValue(0, 0), IntValue(0, 1),
     StringValue(0, <<"1">>), StringValue(0, QuotedOne), StringValue(0, <<"a">>),
     StringValue(0, <<"t", "r", "u", "e">>),
     StringValue(0, <<"f", "a", "l", "s", "e">>), StringValue(0, <<"T">>),
     Identifier(0, <<"a">>),
     Comparison(0, <<"=", "=">>), Comparison(0, <<"!", "=">>),
     Comparison(0, <<"<">>),
     TextValue(0, <<"x">>)}

MaxExprLen == 4
Expressions == UNION {[1..n -> ExprNodes] : n \in 0..MaxExprLen}

EvalInit ==
    /\ ParseInit(<<>>, <<>>, {})
    /\ expression \in Expressions
    /\ evaluated = NotEvaluated
    /\ ExecIdle
    /\ WalkIdle
    /\ twin = NoTwin

Evaluate ==
    /\ ~evaluated.done
    /\ evaluated' = The({[done |-> TRUE, v |-> r.v, err |-> r.err] :
                          r \in {EvaluateExpression(expression)}})
    /\ UNCHANGED <<lexerVars, chq, parserVars, output, expression, execVars,
                   walkVars, parses, twin>>

EvalNext == Evaluate

EvalSpec == EvalInit /\ [][EvalNext]_vars

\* ------------------------------------------------------------------------
\* Properties
\* ------------------------------------------------------------------------
Last(s) == s[Len(s)]

\* The lexer's tokens that wait in items for a later Next, oldest first: a
\* peeked token that Next has not returned yet.
RECURSIVE PendingFrom(_)
PendingFrom(k) ==
    IF k < 0 THEN <<>>
    ELSE (IF origin[k] = "chan" THEN <<t.items[k]>> ELSE <<>>) \o PendingFrom(k - 1)
Pending == PendingFrom(t.peekCount - 1)

\* Parse cannot return any more: the channel is closed and drained, nothing
\* is pending, and the activation on top is in a loop that goes round on the
\* zero item every receive now yields.
Spinning ==
    /\ ~ret.done
    /\ closed
    /\ chq = <<>>
    /\ t.peekCount = 0
    /\ stack # <<>>
    /\ LET f == Last(stack) IN
       \/ f.fn \in {"newBlockStmt", "newElseStmt", "newIfStmt"} /\ f.pc = "body"
       \/ f.fn = "ConsumeUntil" /\ f.it # itemError

\* Once spinning, always spinning.
SpinningForEver == [][Spinning => Spinning']_vars

\* C1: in every interleaving of the lexer goroutine and the parser, the
\* tokens Next has returned, then the peeked token Next has yet to return,
\* then the token in flight on the channel, are the tokens the lexer has
\* emitted, in the order of emission: none lost, duplicated or reordered.
C1_TokensInOrder == emitted = consumed \o Pending \o chq

\* Three tokens returned, the fourth peeked, the fifth in flight.
C1_Witness ==
    /\ Len(consumed) >= 3
    /\ t.peekCount = 1
    /\ origin[0] = "chan"
    /\ chq # <<>>

\* Next has just returned the lexer's Error token.
ErrorReturned == consumed # <<>> /\ Last(consumed).typ = itemError

\* C2: the call of Next that returns the lexer's Error token is the last
\* read: Parse returns a non-nil error from there, at whatever point of the
\* grammar, and it is never still running or spinning after that token.
C2_ErrorEndsParse == ErrorReturned => (ret.done /\ ret.err # NoErr)

\* Next returned EndOfInput while fn was active.
OpenAtEOF(fn) == \E i \in 1..Len(eofIn) : eofIn[i] = fn

ErrEndifEOF == <<"expected 'endif'-tag, got end-of-file">>

\* C3: when EndOfInput arrives in the body or in the else body of an if
\* statement, the run ends with Parse returning the error "expected
\* 'endif'-tag, got end-of-file": newIfStmt has failed and has returned no
\* IfStmt.
C3_UnclosedIfFails ==
    (/\ OpenAtEOF("newIfStmt")
     /\ Last(eofIn) \in {"newIfStmt", "newElseStmt"}
     /\ ret.done \/ Spinning)
        => (ret.done /\ ret.err = ErrEndifEOF)

\* C4: when EndOfInput arrives in the body of a block statement, at the top
\* level or nested in a block or in an if, the run ends with Parse returning
\* a non-nil error: it neither returns nil nor fails to return.
C4_UnclosedBlockFails ==
    (/\ eofIn # <<>>
     /\ Last(eofIn) = "newBlockStmt"
     /\ ret.done \/ Spinning)
        => (ret.done /\ ret.err # NoErr)

\* A node without its positions.
RECURSIVE Shape(_)
Shape(n) ==
    CASE n.kind = "nil" -> n
      [] n.kind = "TextValue" -> [kind |-> n.kind, Text |-> n.Text]
      [] n.kind = "StringValue" -> [kind |-> n.kind, Val |-> n.Val]
      [] n.kind = "IntValue" -> [kind |-> n.kind, Val |-> n.Val]
      [] n.kind = "Comparison" -> [kind |-> n.kind, Type |-> n.Type]
      [] n.kind = "Identifier" -> [kind |-> n.kind, Name |-> n.Name]
      [] n.kind = "TagNode" -> [kind |-> n.kind]
      [] n.kind = "BlockStmt" ->
           [kind |-> n.kind, Name |-> n.Name,
            Body |-> [i \in 1..Len(n.Body) |-> Shape(n.Body[i])]]
      [] n.kind = "IfStmt" ->
           [kind |-> n.kind,
            Expression |-> [i \in 1..Len(n.Expression) |-> Shape(n.Expression[i])],
            Body |-> [i \in 1..Len(n.Body) |-> Shape(n.Body[i])],
            Else |-> Shape(n.Else)]

\* if a: 1, else: an unnamed block of one statement, if b: 2.
ElifShape ==
    Shape(IfStmt(0, <<Identifier(0, <<"a">>)>>, <<TextValue(0, <<"1">>)>>,
                 BlockStmt(0, <<>>,
                           <<IfStmt(0, <<Identifier(0, <<"b">>)>>,
                                    <<TextValue(0, <<"2">>)>>, NilNode)>>)))

\* The else form of the template parses to ElifShape.
ElseFormShape ==
    (ret.done /\ l.input = InElseIf)
        => (ret.err = NoErr /\ Len(t.Root) = 1 /\ Shape(t.Root[1]) = ElifShape)

\* C5: {% if a %}1{% elif b %}2{% endif %} parses, and to the tree of
\* {% if a %}1{% else %}{% if b %}2{% endif %}{% endif %}: an IfStmt whose
\* Else is an unnamed BlockStmt around the one nested IfStmt for b.
C5_ElifDesugars ==
    (ret.done /\ l.input \in {InElif, InElseIf})
        => (ret.err = NoErr /\ Len(t.Root) = 1 /\ Shape(t.Root[1]) = ElifShape)

\* The places of the Error tokens among the emitted items.
ErrorsEmitted == {i \in 1..Len(emitted) : emitted[i].typ = itemError}

TerminalLast ==
    /\ \A i \in 1..Len(emitted) :
         emitted[i].typ \in {itemEOF, itemError}
             => i = Len(emitted) /\ lstate \in {"close", "done"}
    /\ lstate \in {"close", "done"}
           => emitted # <<>> /\ Last(emitted).typ \in {itemEOF, itemError}
    /\ \A i \in 1..Len(emitted) :
         emitted[i].typ = itemEOF
             => l.pos = Len(l.input) /\ emitted[i].pos = Len(l.input)
    /\ closed => lstate = "done"

\* The state functions that are entered without a byte consumed and without
\* an item sent, and that consume at least one byte themselves.
HandedOver ==
    {"lexTagStart", "lexVarStart", "lexTagEnd", "lexVarEnd", "lexNumber",
     "lexIdentifier"}

\* A call of a state function consumes at least one byte or ends the run.
ConsumesOrEnds == LexerNext => (l'.pos > l.pos \/ lstate' \in {"close", "done"})

\* ... or hands over, silently, to a state function that consumes.
ConsumesEndsOrHandsOver ==
    LexerNext =>
        /\ \/ l'.pos > l.pos
           \/ lstate' \in {"close", "done"}
           \/ l'.pos = l.pos /\ emitted' = emitted /\ lstate' \in HandedOver
        /\ lstate \in HandedOver => l'.pos > l.pos

\* C7 as stated: with a consumer that keeps receiving the lexer terminates,
\* every state function consumes at least one byte or ends the run, the last
\* item is the one terminal token, EndOfInput comes only with the whole input
\* consumed, and the lexer then stops and closes the channel.
C7_EveryCallConsumes ==
    /\ []TerminalLast
    /\ [][ConsumesOrEnds]_vars
    /\ <>(lstate = "done")

\* C7, amended: as above, but a state function may also hand over, without
\* consuming and without sending, to one that consumes at least one byte.
C7_LexerTerminates ==
    /\ []TerminalLast
    /\ [][ConsumesEndsOrHandsOver]_vars
    /\ <>(lstate = "done")

\* The lexer has stopped after a tag, with EndOfInput and the channel closed.
C7_Witness ==
    /\ lstate = "done"
    /\ closed
    /\ Len(emitted) >= 4
    /\ Last(emitted).typ = itemEOF
    /\ \E i \in 1..Len(emitted) : emitted[i].typ = itemTagEnd

\* C8: the channel is a rendezvous: at most one emitted token has not been
\* received, and while it waits the lexer stands where that token ends, so
\* it never scans beyond a token the parser has not taken.
C8_Rendezvous ==
    /\ Len(chq) <= 1
    /\ (chq # <<>> /\ Head(chq).typ # itemError) => l.pos = Head(chq).pos

\* A token waits on the channel with input left to scan behind it.
C8_Witness ==
    /\ chq # <<>>
    /\ Len(consumed) >= 2
    /\ l.pos < Len(l.input)
    /\ lstate \notin {"close", "done"}

\* C9: the position of every token but Error is the offset at which its text
\* starts: input[pos : pos+len(val)] = val.
C9_PosIsStart ==
    \A i \in 1..Len(emitted) :
        emitted[i].typ # itemError =>
            /\ emitted[i].pos + Len(emitted[i].val) <= Len(l.input)
            /\ Slice(l.input, emitted[i].pos, emitted[i].pos + Len(emitted[i].val))
                   = emitted[i].val

NoBrace(in) == \A i \in 1..Len(in) : in[i] # "{"

\* The types and the texts of the emitted items.
Emitted == [i \in 1..Len(emitted) |-> <<emitted[i].typ, emitted[i].val>>]
IsPrefix(a, b) == Len(a) <= Len(b) /\ SubSeq(b, 1, Len(a)) = a

\* C10 as stated: for an input without "{" the lexer emits two tokens, Text
\* with the whole input and EndOfInput.
C10_TextThenEOF ==
    NoBrace(l.input) =>
        /\ IsPrefix(Emitted, <<<<itemText, l.input>>, <<itemEOF, <<>>>>>>)
        /\ lstate = "done" => Len(emitted) = 2

\* C10, amended: that holds of the inputs that are not empty; for the empty
\* input the lexer emits EndOfInput alone.
C10_TextIfAnyThenEOF ==
    NoBrace(l.input) =>
        LET expected == IF l.input = <<>> THEN <<<<itemEOF, <<>>>>>>
                        ELSE <<<<itemText, l.input>>, <<itemEOF, <<>>>>>>
        IN /\ IsPrefix(Emitted, expected)
           /\ lstate = "done" => Emitted = expected

\* The lexer is done with an input of text alone, several bytes of it.
C10_Witness ==
    /\ lstate = "done"
    /\ NoBrace(l.input)
    /\ Len(l.input) >= 2
    /\ Len(emitted) = 2

\* The tree of {% if m == n %}A{% else %}B{% endif %} for integer literals m
\* and n.
IsIfElseOfInts(root) ==
    /\ Len(root) = 1
    /\ root[1].kind = "IfStmt"
    /\ Len(root[1].Expression) = 3
    /\ root[1].Expression[1].kind = "IntValue"
    /\ root[1].Expression[2].kind = "Comparison"
    /\ root[1].Expression[2].Type = <<"=", "=">>
    /\ root[1].Expression[3].kind = "IntValue"
    /\ Len(root[1].Body) = 1
    /\ root[1].Body[1].kind = "TextValue"
    /\ root[1].Body[1].Text = <<"A">>
    /\ root[1].Else.kind = "BlockStmt"
    /\ Len(root[1].Else.Body) = 1
    /\ root[1].Else.Body[1].kind = "TextValue"
    /\ root[1].Else.Body[1].Text = <<"B">>

\* C11: when Parse of {% if m == n %}A{% else %}B{% endif %}, with m and n
\* integer literals, has returned without error and Root has been executed,
\* ExecuteNodes returned "A" if m = n and "B" otherwise.
C11_IfElseExecutes ==
    (ret.done /\ ret.err = NoErr /\ output.done /\ IsIfElseOfInts(t.Root)) =>
        /\ output.err = NoErr
        /\ output.v = IF t.Root[1].Expression[1].Val = t.Root[1].Expression[3].Val
                      THEN <<"A">> ELSE <<"B">>

\* The text of a sequence of nodes in source order, the tags removed.
RECURSIVE TextIn(_)
TextIn(nodes) ==
    IF nodes = <<>> THEN <<>>
    ELSE (CASE Head(nodes).kind = "TextValue" -> Head(nodes).Text
            [] Head(nodes).kind = "BlockStmt" -> TextIn(Head(nodes).Body)
            [] OTHER -> <<>>) \o TextIn(Tail(nodes))

\* The nodes come from plain text and (nested) block tags only.
RECURSIVE OnlyTextAndBlocks(_)
OnlyTextAndBlocks(nodes) ==
    \A i \in 1..Len(nodes) :
        \/ nodes[i].kind = "TextValue"
        \/ nodes[i].kind = "BlockStmt" /\ OnlyTextAndBlocks(nodes[i].Body)

\* C12: when Parse of a template of plain text and (nested) block tags has
\* returned without error and Root has been executed, ExecuteNodes returned
\* all the text of the template in source order: a text node executes to its
\* text and a BlockStmt to the concatenation of its body's outputs.
C12_TextAndBlocksExecute ==
    (ret.done /\ ret.err = NoErr /\ output.done /\ OnlyTextAndBlocks(t.Root)) =>
        /\ output.err = NoErr
        /\ output.v = TextIn(t.Root)

\* A string literal without the quotes around it.
Unquoted(str) ==
    IF Len(str) >= 2 /\ Head(str) = "\"" /\ str[Len(str)] = "\""
    THEN SubSeq(str, 2, Len(str) - 1) ELSE str

\* The expression is [IntValue, Comparison ==, StringValue].
IsIntEqualsString(expr) ==
    /\ Len(expr) = 3
    /\ expr[1].kind = "IntValue"
    /\ expr[2].kind = "Comparison"
    /\ expr[2].Type = <<"=", "=">>
    /\ expr[3].kind = "StringValue"

\* C13: EvaluateExpression on [IntValue n, Comparison ==, StringValue s]
\* returns true exactly when s denotes an integer and that integer is n; a
\* string that is no integer equals no integer, 0 included.
C13_IntEqualsString ==
    (evaluated.done /\ IsIntEqualsString(expression)) =>
        /\ evaluated.err = NoErr
        /\ evaluated.v <=> /\ Atoi(Unquoted(expression[3].Val)).ok
                           /\ Atoi(Unquoted(expression[3].Val)).v = expression[1].Val

\* A comparison of three nodes that the evaluator does not support: an
\* operator other than ==, an Identifier on either side, or a string on the
\* left.
IsUnsupportedComparison(expr) ==
    /\ Len(expr) = 3
    /\ expr[2].kind = "Comparison"
    /\ expr[1].kind \in {"IntValue", "StringValue", "Identifier"}
    /\ expr[3].kind \in {"IntValue", "StringValue", "Identifier"}
    /\ \/ expr[2].Type # <<"=", "=">>
       \/ expr[1].kind = "Identifier"
       \/ expr[3].kind = "Identifier"
       \/ expr[1].kind = "StringValue"

\* C14: EvaluateExpression on a comparison of three nodes that it does not
\* support (an operator among > < >= <= !=, an Identifier operand, a string
\* on the left) returns a non-nil error, never false with a nil error.
C14_UnsupportedIsError ==
    (evaluated.done /\ IsUnsupportedComparison(expression)) =>
        evaluated.err # NoErr

\* C15: EvaluateExpression returns a non-nil error for the empty expression,
\* for every expression of 2 nodes or of 4 nodes and more, and for 3 nodes
\* whose middle one is no Comparison; a nil error comes with length 1 or 3
\* only.
C15_OnlyOneOrThreeNodes ==
    evaluated.done =>
        /\ (Len(expression) \notin {1, 3}) => evaluated.err # NoErr
        /\ (Len(expression) = 3 /\ expression[2].kind # "Comparison") =>
               evaluated.err # NoErr

\* C16: EvaluateExpression on one node: an IntValue is true iff it is not 0;
\* a StringValue is true for the string true only, false for the string
\* false only, and an error for every other string; an Identifier is an
\* error.
C16_SingleNode ==
    (evaluated.done /\ Len(expression) = 1) =>
        LET node == expression[1] IN
        /\ node.kind = "IntValue" =>
               evaluated.err = NoErr /\ (evaluated.v <=> node.Val # 0)
        /\ (node.kind = "StringValue" /\ node.Val = <<"t", "r", "u", "e">>) =>
               evaluated.err = NoErr /\ evaluated.v
        /\ (node.kind = "StringValue" /\ node.Val = <<"f", "a", "l", "s", "e">>) =>
               evaluated.err = NoErr /\ ~evaluated.v
        /\ (/\ node.kind = "StringValue"
            /\ node.Val \notin {<<"t", "r", "u", "e">>, <<"f", "a", "l", "s", "e">>}) =>
               evaluated.err # NoErr
        /\ node.kind = "Identifier" => evaluated.err # NoErr

\* The name that closes the innermost construct open in the activations s:
\* endblock in a block, endif in an if or an else, <<>> at the top level.
RECURSIVE CloserOf(_)
CloserOf(s) ==
    IF s = <<>> THEN <<>>
    ELSE CASE Last(s).fn = "newBlockStmt" -> endblockName
           [] Last(s).fn \in {"newIfStmt", "newElseStmt"} -> endifName
           [] OTHER -> CloserOf(SubSeq(s, 1, Len(s) - 1))

\* The Parse of a registered tag is running: the tokens are its own.
TagParseRunning == calls # <<>> /\ Last(calls).result = "running"

\* The k-th token of the lexer was returned to the Parse of a registered tag.
TakenByTag(k) == \E i \in 1..Len(calls) : calls[i].at < k /\ k <= calls[i].upto

\* This step, Next returns the name of a tag to the parser: an Identifier of
\* the lexer that follows a TagStart the parser has taken too, neither of
\* them among the tokens ConsumeUntil throws away.
TagNameTaken ==
    /\ ~TagParseRunning
    /\ stack # <<>> /\ Last(stack).fn # "ConsumeUntil"
    /\ consumed # <<>>
    /\ ~TakenByTag(Len(consumed))
    /\ Last(consumed).typ = itemTagStart
    /\ Len(consumed') = Len(consumed) + 1
    /\ Last(consumed').typ = itemIdentifier

\* Once Parse has returned, the Tree reads and builds nothing more.
ParseIsOver == ret.done => UNCHANGED <<t, stack, ret, consumed, calls>>

Collected(s, tr) == IF Last(s).fn = "parse" THEN tr.Root ELSE Last(s).body

\* The first token Next returned to a registered tag's Parse is the lexer's
\* token after the tag's name.
FirstFollowsName ==
    \A i \in 1..Len(calls) :
        /\ calls[i].peekCount = 0
        /\ calls[i].at >= 2
        /\ consumed[calls[i].at].typ = itemIdentifier
        /\ consumed[calls[i].at].val = calls[i].name
        /\ calls[i].nexts > 0 =>
               /\ calls[i].firstSrc = "chan"
               /\ calls[i].first = emitted[calls[i].at + 1]

\* The steps that call a registered tag's Parse, and those that end it.
TagParseCalled ==
    /\ Len(calls') = Len(calls) + 1
    /\ Last(calls').name = Last(consumed').val
    /\ Last(calls').at = Len(consumed')
    /\ Last(calls').result = "running"
    /\ t'.peekCount = 0
TagParseReturns(result) ==
    /\ TagParseRunning
    /\ Len(calls') = Len(calls)
    /\ Last(calls').result = result

\* C18: when Next returns to the parser the name of a tag that is registered
\* (and does not close the enclosing construct), the parser calls the tag's
\* Parse, once, and calls it on no other step; at the call the name is the
\* last token taken and no token is pending in items, so that the first
\* Next of the tag's Parse returns the lexer's token after the name.  The
\* node it returns is appended to the enclosing body or to Root, and the error
\* it returns is the error Parse returns.
C18_RegisteredTagParses ==
    /\ []FirstFollowsName
    /\ [][/\ (/\ TagNameTaken
              /\ Last(consumed').val \in t.registeredTags
              /\ Last(consumed').val # CloserOf(stack)) => TagParseCalled
          /\ Len(calls') # Len(calls) =>
                 /\ TagNameTaken
                 /\ Last(consumed').val \in t.registeredTags
                 /\ TagParseCalled
          /\ TagParseReturns("node") =>
                 /\ ~ret'.done
                 /\ Collected(stack', t') =
                        Append(Collected(SubSeq(stack, 1, Len(stack) - 1), t),
                               Last(calls').node)
          /\ TagParseReturns("error") =>
                 /\ ret' = [done |-> TRUE, err |-> Last(calls').err]
                 /\ Last(calls').err # NoErr]_vars

\* The registered tag in a block has returned its node, which is the body of
\* the block.
C18_Witness ==
    /\ l.input = InBleepInBlock
    /\ ret = [done |-> TRUE, err |-> NoErr]
    /\ Len(calls) = 1
    /\ calls[1].result = "node"
    /\ calls[1].first.typ = itemTagEnd
    /\ Len(t.Root) = 1
    /\ t.Root[1].kind = "BlockStmt"
    /\ t.Root[1].Body = <<calls[1].node>>

\* The tree of a template of plain text and block tags, read off the lexer's
\* tokens with each endblock closing the innermost open block: open holds the
\* bodies of the open blocks, the template itself first, with their names.
\* The status is "ok" with the tree in root, "bad" when the tokens are not of
\* such a template (or a block is left open), "more" when they end early.
RECURSIVE NestFrom(_, _, _, _, _)
NestFrom(toks, i, open, mode, name) ==
    LET top == open[Len(open)]
        typ == toks[i].typ
        bad == [status |-> "bad", root |-> <<>>]
        with(n) == [open EXCEPT ![Len(open)].body = Append(top.body, n)]
        popped == SubSeq(open, 1, Len(open) - 1)
        shut == [popped EXCEPT ![Len(popped)].body =
                       Append(popped[Len(popped)].body,
                              [kind |-> "BlockStmt", Name |-> top.name,
                               Body |-> top.body])]
    IN
    IF i > Len(toks) THEN [status |-> "more", root |-> <<>>]
    ELSE CASE mode = "body" /\ typ = itemText ->
                NestFrom(toks, i + 1,
                         with([kind |-> "TextValue", Text |-> toks[i].val]),
                         "body", name)
           [] mode = "body" /\ typ = itemTagStart ->
                NestFrom(toks, i + 1, open, "start", name)
           [] mode = "body" /\ typ = itemEOF /\ Len(open) = 1 ->
                [status |-> "ok", root |-> top.body]
           [] mode = "start" /\ typ = itemBlock ->
                NestFrom(toks, i + 1, open, "block", name)
           [] mode = "start" /\ typ = itemIdentifier /\ toks[i].val = endblockName
                             /\ Len(open) > 1 ->
                NestFrom(toks, i + 1, open, "end", name)
           [] mode = "block" /\ typ = itemIdentifier ->
                NestFrom(toks, i + 1, open, "name", toks[i].val)
           [] mode = "name" /\ typ = itemTagEnd ->
                NestFrom(toks, i + 1, Append(open, [name |-> name, body |-> <<>>]),
                         "body", name)
           [] mode = "end" /\ typ = itemTagEnd ->
                NestFrom(toks, i + 1, shut, "body", name)
           [] OTHER -> bad

NestOf(toks) == NestFrom(toks, 1, <<[name |-> <<>>, body |-> <<>>]>>, "body", <<>>)

\* {% block a %}{% block b %}x{% endblock %}y{% endblock %} as a tree.
NestedTailShape ==
    <<Shape(BlockStmt(0, <<"a">>,
                      <<BlockStmt(0, <<"b">>, <<TextValue(0, <<"x">>)>>),
                        TextValue(0, <<"y">>)>>))>>

\* C19: when Parse has returned for a template of plain text and block tags
\* in which every block is closed, it returned no error and Root is the tree
\* in which each endblock closes the innermost open block: nested blocks
\* make a chain named in opening order, and the text after an inner
\* endblock is in the enclosing block.
C19_BlocksNest ==
    (ret.done /\ NestOf(emitted).status # "bad") =>
        /\ ret.err = NoErr
        /\ NestOf(emitted).status = "ok"
        /\ [i \in 1..Len(t.Root) |-> Shape(t.Root[i])] = NestOf(emitted).root

\* The template with text after the inner endblock has been parsed.
C19_Witness ==
    /\ l.input = InNestedTail
    /\ ret = [done |-> TRUE, err |-> NoErr]
    /\ NestOf(emitted).status = "ok"
    /\ NestOf(emitted).root = NestedTailShape
    /\ [i \in 1..Len(t.Root) |-> Shape(t.Root[i])] = NestedTailShape

\* The lexer has met ")" in a tag with no parenthesis open and has reported
\* it: the last item it sent is the Error "unexpected right paren".
RightParenReported ==
    /\ emitted # <<>>
    /\ Last(emitted).typ = itemError
    /\ Last(emitted).val # <<>>
    /\ Last(emitted).val[1] = "unexpected right paren "

\* C20: when the lexer has met ")" in a tag with no parenthesis open, it has
\* sent the Error "unexpected right paren" as its last item and has left its
\* loop, and the parse fails: Parse is not in a loop it cannot leave, and
\* when it has returned it has returned an error.
C20_RightParenFails ==
    RightParenReported =>
        /\ lstate \in {"close", "done"}
        /\ ~Spinning
        /\ ret.done => ret.err # NoErr

\* ---------------------------------------------------------------------------
\* A run-time panic, as the value an operation ends with.
IsPanic(err) == err \in {<<"panic: index out of range">>, NilExecute.err}

\* C21: no operation panics: when Parse has returned, what it returned is nil
\* or an error and no run-time panic, and when the Root of a Parse that
\* returned nil has been executed, ExecuteNodes has returned normally, no
\* method having been called on a nil node.
C21_NothingPanics ==
    /\ ret.done => ~IsPanic(ret.err)
    /\ (output.done /\ ret.err = NoErr) => ~IsPanic(output.err)

\* ---------------------------------------------------------------------------
\* Two Trees: once Parse has returned on the first Tree, the program makes a
\* second Tree with NewTree and calls Parse on it.  The second Tree has its
\* own lexer goroutine and channel; the goroutine of the first lexer may still
\* be running.
\* ---------------------------------------------------------------------------
\* The state function named st, called on l.
StateFn(st, lx) ==
    CASE st = "lexText" -> lexText(lx)
      [] st = "lexTextEOF" -> lexTextEOF(lx)
      [] st = "lexTagStart" -> lexTagStart(lx)
      [] st = "lexTagEnd" -> lexTagEnd(lx)
      [] st = "lexVarStart" -> lexVarStart(lx)
      [] st = "lexVarEnd" -> lexVarEnd(lx)
      [] st = "lexInsideTag" -> lexInsideTag(lx)
      [] st = "lexRightParenError" -> lexRightParenError(lx)
      [] st = "lexNumber" -> lexNumber(lx)
      [] st = "lexQuote" -> lexQuote(lx)
      [] st = "lexSingleQuote" -> lexSingleQuote(lx)
      [] st = "lexIdentifier" -> lexIdentifier(lx)

\* The activation on top of m goes on to its next call of Next or Peek.
StepFn(m, in, src) ==
    CASE Top(m).fn = "parse" -> parseStep(m, in, src)
      [] Top(m).fn = "tag" -> tagStep(m, in, src)
      [] Top(m).fn = "newBlockStmt" -> newBlockStmtStep(m, in, src)
      [] Top(m).fn = "newIfStmt" -> newIfStmtStep(m, in, src)
      [] Top(m).fn = "newElseStmt" -> newElseStmtStep(m, in, src)
      [] Top(m).fn = "ConsumeUntil" -> ConsumeUntilStep(m, in, src)

\* t2 := NewTree(name); Parse(in) on it up to the first Peek of parse.
NewTwin(in) ==
    [l |-> NewLexer(in), lstate |-> "lexText", chq |-> <<>>, closed |-> FALSE,
     m |-> [t |-> NewTree({}), stack |-> <<Frame("parse", "peek")>>,
            ret |-> NotReturned, origin |-> NoOrigin, consumed |-> <<>>,
            eofIn |-> <<>>, calls |-> <<>>]]

TwinVars == <<lexerVars, chq, parserVars, output, evalVars, execVars, walkVars,
              parses>>

\* One call of a state function by the run of the second lexer.
TwinLexerStep ==
    /\ twin # NoTwin
    /\ ret.done
    /\ twin.lstate \notin {"close", "done"}
    /\ ~SendBlocked(twin.chq)
    /\ twin' = The({[twin EXCEPT !.l = res.l, !.lstate = res.nxt,
                                 !.chq = twin.chq \o res.out] :
                     res \in {StateFn(twin.lstate, twin.l)}})
    /\ UNCHANGED TwinVars

\* close(l.items) of the second lexer.
TwinLexClose ==
    /\ twin # NoTwin
    /\ ret.done
    /\ twin.lstate = "close"
    /\ ~SendBlocked(twin.chq)
    /\ twin' = [twin EXCEPT !.closed = TRUE, !.lstate = "done"]
    /\ UNCHANGED TwinVars

\* One step of the parser of the second Tree.
TwinParserStep ==
    /\ twin # NoTwin
    /\ ret.done
    /\ twin.m.stack # <<>>
    /\ twin.m.t.peekCount = 0 => (twin.chq # <<>> \/ twin.closed)
    /\ twin' = The({[twin EXCEPT
                       !.m = m2,
                       !.chq = IF twin.m.t.peekCount = 0 /\ twin.chq # <<>>
                               THEN Tail(twin.chq) ELSE twin.chq] :
                     m2 \in {IF twin.chq # <<>>
                             THEN StepFn(twin.m, Head(twin.chq), "chan")
                             ELSE StepFn(twin.m, ZeroItem, "closed")}})
    /\ UNCHANGED TwinVars

\* The templates the two Trees parse.
MaxTwinSegs == 3
TwinInputs == SegInputs(MaxTwinSegs) \cup NamedInputs

TwinInit ==
    \E in \in TwinInputs :
        /\ ParseInit(in, <<Frame("parse", "peek")>>, {})
        /\ EvalIdle
        /\ ExecIdle
        /\ WalkIdle
        /\ twin = NewTwin(in)

TwinNext ==
    \/ LexerNext
    \/ ParseAct \/ TagAct \/ NewBlockStmtAct \/ NewIfStmtAct \/ NewElseStmtAct
    \/ ConsumeUntilAct
    \/ TwinLexerStep \/ TwinLexClose \/ TwinParserStep

TwinSpec == TwinInit /\ [][TwinNext]_vars

LoopGoesOn(nodes, i, b) ==
    IF i = Len(nodes)
    THEN [idx |-> i, builder |-> b,
          executed |-> [done |-> TRUE, v |-> b, err |-> NoErr]]
    ELSE The({[idx |-> i + 1, builder |-> b \o r.v, executed |-> NotRun] :
               r \in {Execute(nodes[i + 1])}})
ExecuteLoop(nodes, i, b) ==
    IF i = Len(nodes)
    THEN [idx |-> i, builder |-> b,
          executed |-> [done |-> TRUE, v |-> b, err |-> NoErr]]
    ELSE The({IF r.err # NoErr
              THEN [idx |-> i + 1, builder |-> b,
                    executed |-> [done |-> TRUE, v |-> <<>>, err |-> r.err]]
              ELSE [idx |-> i + 1, builder |-> b \o r.v, executed |-> NotRun] :
               r \in {Execute(nodes[i + 1])}})

ExecuteNodesStep ==
    /\ ~executed.done
    /\ \E st \in {ExecuteLoop(nodeList, idx, builder)} :
          /\ idx' = st.idx
          /\ builder' = st.builder
          /\ executed' = st.executed
    /\ UNCHANGED <<lexerVars, chq, parserVars, output, evalVars, nodeList,
                   walkVars, parses, twin>>

\* The nodes the lists are made of: nodes of the package and nodes of other
\* types that return text, an error, or both.
ExecOutA == OtherNode(<<"a">>, NoErr)
ExecOutB == OtherNode(<<"b", "c">>, NoErr)
ExecErr1 == OtherNode(<<>>, <<"e1">>)
ExecErr2 == OtherNode(<<"x">>, <<"e2">>)
ExecNodes ==
    {TextValue(0, <<"t">>), ExecOutA, ExecOutB, OtherNode(<<>>, NoErr),
     ExecErr1, ExecErr2,
     BlockStmt(0, <<"c">>, <<ExecOutB, ExecOutA>>),
     BlockStmt(0, <<"c">>, <<ExecOutA, ExecErr2, ExecOutB>>)}
MaxNodes == 3
NodeLists == UNION {[1..n -> ExecNodes] : n \in 0..MaxNodes}

ExecInit ==
    /\ ParseInit(<<>>, <<>>, {})
    /\ EvalIdle
    /\ WalkIdle
    /\ twin = NoTwin
    /\ nodeList \in NodeLists
    /\ idx = 0
    /\ builder = <<>>
    /\ executed = NotRun

ExecNext == ExecuteNodesStep

ExecSpec == ExecInit /\ [][ExecNext]_vars

\* The outputs of the first k nodes, one after the other.
RECURSIVE OutputsOf(_, _)
OutputsOf(nodes, k) ==
    IF k = 0 THEN <<>> ELSE OutputsOf(nodes, k - 1) \o Execute(nodes[k]).v

\* The nodes of the list whose Execute returns an error.
Failing(nodes) == {i \in 1..Len(nodes) : Execute(nodes[i]).err # NoErr}
FirstFailing(nodes) == CHOOSE i \in Failing(nodes) : \A j \in Failing(nodes) : i <= j

\* C23: ExecuteNodes returns the outputs of the nodes' Execute, in the order
\* of the list and with nothing in between, when no node fails; when a node
\* fails it returns the error of the first such node and the empty string,
\* and no node after that one is executed.
C23_ConcatenatesOrFirstError ==
    /\ \A i \in 1..(idx - 1) : i \notin Failing(nodeList)
    /\ executed.done =>
          IF Failing(nodeList) = {}
          THEN /\ idx = Len(nodeList)
               /\ executed.err = NoErr
               /\ executed.v = OutputsOf(nodeList, Len(nodeList))
          ELSE /\ idx = FirstFailing(nodeList)
               /\ executed.err = Execute(nodeList[idx]).err
               /\ executed.v = <<>>

\* ExecuteNodes has returned the error of the second of three nodes.
C23_Witness ==
    /\ executed.done
    /\ executed.err # NoErr
    /\ Len(nodeList) = 3
    /\ idx = 2
    /\ Execute(nodeList[1]).v # <<>>

\* The stepwise loop returns what ExecuteNodes returns.
ExecuteLoopIsExecuteNodes ==
    executed.done =>
        /\ executed.v = ExecuteNodes(nodeList).v
        /\ executed.err = ExecuteNodes(nodeList).err

\* ---------------------------------------------------------------------------
\* Tree.Walk
\* ---------------------------------------------------------------------------
\* A visit function is a Walker.  The functions of the model record their
\* calls and are told apart by depth: the function handed to Walk has depth 0,
\* and the function a call returns is nil for the nodes in skip and a function
\* of the next depth for every other node.
Walker(depth, skp) == [depth |-> depth, skip |-> skp]
Visit(fn, n) == [node |-> n, by |-> fn.depth]
SubWalker(fn, n) == Walker(fn.depth + 1, fn.skip)

\* walk(fn, nodeList) from entry k on, log the calls made so far: the calls
\* made when it returns (it returns no error: none of its steps produces one).
RECURSIVE walkFrom(_, _, _, _)
walkFrom(fn, list, k, log) ==
    IF k > Len(list) THEN log
    ELSE LET n == list[k]
             log1 == Append(log, Visit(fn, n))
             sub == SubWalker(fn, n)
         IN IF n \in fn.skip THEN walkFrom(fn, list, k + 1, log1)
            ELSE CASE n.kind = "BlockStmt" ->
                        walkFrom(fn, list, k + 1, walkFrom(sub, n.Body, 1, log1))
                   [] n.kind = "IfStmt" ->
                        LET log2 == walkFrom(sub, n.Expression, 1, log1)
                            log3 == walkFrom(sub, n.Body, 1, log2)
                            log4 == IF n.Else # NilNode
                                    THEN walkFrom(sub, <<n.Else>>, 1, log3)
                                    ELSE log3
                        IN walkFrom(fn, list, k + 1, log4)
                   [] OTHER -> walkFrom(fn, list, k + 1, log1)
walk(fn, list) == walkFrom(fn, list, 1, <<>>)

\* t.Walk(fn)
WalkAct ==
    /\ ~visits.done
    /\ visits' = [done |-> TRUE, calls |-> walk(Walker(0, skip), t.Root)]
    /\ UNCHANGED <<lexerVars, chq, parserVars, output, evalVars, execVars, skip,
                   parses, twin>>

\* Root after Parse has returned nil on {% if 1 == 1 %}A{% else %}B{% endif %},
\* on {% block a %}{% block b %}x{% endblock %}{% endblock %}, on
\* x{% if a %}x{% endif %}, on {% block c %}{{ a }}{% endblock %} and on
\* {% block c %}x{{ a }}{% endblock %}; in the last the four entries of the
\* body are one node, appended four times.
RootIfElse ==
    <<IfStmt(5, <<IntValue(7, 1), Comparison(10, <<"=", "=">>), IntValue(12, 1)>>,
             <<TextValue(16, <<"A">>)>>,
             BlockStmt(23, <<>>, <<TextValue(27, <<"B">>)>>))>>
RootNested ==
    <<BlockStmt(10, <<"a">>,
                <<BlockStmt(23, <<"b">>, <<TextValue(27, <<"x">>)>>)>>)>>
RootTextIf ==
    <<TextValue(1, <<"x">>),
      IfStmt(6, <<Identifier(8, <<"a">>)>>, <<TextValue(12, <<"x">>)>>, NilNode)>>
RootBlockVar == <<BlockStmt(10, <<"c">>, <<NilNode, NilNode, NilNode>>)>>
RootBlockTextVar ==
    <<BlockStmt(10, <<"c">>,
                <<TextValue(14, <<"x">>), TextValue(14, <<"x">>),
                  TextValue(14, <<"x">>), TextValue(14, <<"x">>)>>)>>
WalkTrees == {<<>>, RootIfElse, RootNested, RootTextIf, RootBlockVar, RootBlockTextVar}

\* Parse builds the trees of WalkTrees.
WalkTreesAreParsed ==
    ret.done =>
        /\ l.input = InIfElseEq => (ret.err = NoErr /\ t.Root = RootIfElse)
        /\ l.input = InNested => (ret.err = NoErr /\ t.Root = RootNested)
        /\ l.input = SegText \o SegIf \o SegText \o SegEndif =>
               (ret.err = NoErr /\ t.Root = RootTextIf)
        /\ l.input = InBlockVar => (ret.err = NoErr /\ t.Root = RootBlockVar)
        /\ l.input = InBlockTextVar => (ret.err = NoErr /\ t.Root = RootBlockTextVar)

\* The entries of a tree, each with its descendants: nil entries are entries
\* too, though no nodes.
RECURSIVE EntriesIn(_)
EntriesIn(list) ==
    UNION {{list[k]} \cup
           (CASE list[k].kind = "BlockStmt" -> EntriesIn(list[k].Body)
              [] list[k].kind = "IfStmt" ->
                   EntriesIn(list[k].Expression) \cup EntriesIn(list[k].Body)
                   \cup EntriesIn(<<list[k].Else>>)
              [] OTHER -> {}) : k \in 1..Len(list)}
NodesIn(list) == EntriesIn(list) \ {NilNode}

\* The visit function returns nil for at most MaxSkip nodes of the tree.
MaxSkip == 3

WalkInit ==
    /\ l = NewLexer(<<>>)
    /\ lstate = "done"
    /\ chq = <<>>
    /\ closed = TRUE
    /\ emitted = <<>>
    /\ \E tree \in WalkTrees :
          /\ t = [NewTree({}) EXCEPT !.Root = tree]
          /\ nodeList = tree
          /\ skip \in {S \in SUBSET NodesIn(tree) : Cardinality(S) <= MaxSkip}
    /\ stack = <<>>
    /\ ret = [done |-> TRUE, err |-> NoErr]
    /\ origin = NoOrigin
    /\ consumed = <<>>
    /\ eofIn = <<>>
    /\ calls = <<>>
    /\ output = NotRun
    /\ parses = 1
    /\ EvalIdle
    /\ idx = 0
    /\ builder = <<>>
    /\ executed = NotRun
    /\ visits = NotWalked
    /\ twin = NoTwin

WalkNext == WalkAct

WalkSpec == WalkInit /\ [][WalkNext]_vars

\* The nodes of a tree in depth-first pre-order, each with its depth, the
\* descendants of the nodes in skp left out: for an if statement the
\* expression, the body and the else node, for a block the body.
RECURSIVE PreOrder(_, _, _)
PreOrder(list, depth, skp) ==
    IF list = <<>> THEN <<>>
    ELSE LET n == Head(list)
             below == CASE n \in skp \/ n.kind = "nil" -> <<>>
                        [] n.kind = "BlockStmt" -> PreOrder(n.Body, depth + 1, skp)
                        [] n.kind = "IfStmt" ->
                             PreOrder(n.Expression, depth + 1, skp)
                             \o PreOrder(n.Body, depth + 1, skp)
                             \o (IF n.Else = NilNode THEN <<>>
                                 ELSE PreOrder(<<n.Else>>, depth + 1, skp))
                        [] OTHER -> <<>>
         IN <<[node |-> n, by |-> depth]>> \o below \o PreOrder(Tail(list), depth, skp)

\* The calls of the visit function on n.
CallsOn(n) == {i \in 1..Len(visits.calls) : visits.calls[i].node = n}

\* Walk calls the visit function once for every entry of every list it comes
\* to, in pre-order, the function returned for a node on the entries below it,
\* and not at all below a node for which nil was returned.
WalkVisitsEntriesInPreOrder ==
    /\ t.Root = nodeList
    /\ visits.done => visits.calls = PreOrder(t.Root, 0, skip)

\* C24: Walk with a visit function that always returns a continuation calls
\* it exactly once for every node reachable from Root, in depth-first
\* pre-order (if statement: expression, body, else node if not nil; block:
\* body), and on nodes only; when the function returns nil for a node, no
\* descendant of that node is visited; the function returned for a node is
\* the one called on its children; the tree is the same after Walk as before.
C24_WalkVisitsOnce ==
    /\ t.Root = nodeList
    /\ visits.done =>
          /\ visits.calls = PreOrder(t.Root, 0, skip)
          /\ \A i \in 1..Len(visits.calls) : visits.calls[i].node # NilNode
          /\ skip = {} => \A n \in NodesIn(t.Root) : Cardinality(CallsOn(n)) = 1

\* ---------------------------------------------------------------------------
\* The Tree used through Next and Peek by a caller that is not the parser (a
\* Tag's Parse is handed the Tree as a Stepper).  calls is the log of the
\* caller's calls: the Peeks since the last Next, with the Next that follows
\* them; each entry has the token returned and whether the call received
\* from the lexer.
\* ---------------------------------------------------------------------------
MaxPeeks == 3

Logged(op, tok, read) == [op |-> op, tok |-> tok, read |-> read]
LogAfter(log, e) ==
    IF log # <<>> /\ log[Len(log)].op = "Peek" THEN Append(log, e) ELSE <<e>>

\* token := t.Peek()
ClientPeek ==
    /\ ParserReady("client")
    /\ Len(calls) < MaxPeeks
    /\ ParserStep([DoPeek(Machine, RecvItem, RecvSrc) EXCEPT
                     !.calls = LogAfter(calls, Logged("Peek", PeekToken(t, RecvItem),
                                                      t.peekCount = 0))])

\* token := t.Next()
ClientNext ==
    /\ ParserReady("client")
    /\ ParserStep([DoNext(Machine, RecvItem, RecvSrc) EXCEPT
                     !.calls = LogAfter(calls, Logged("Next", NextToken(t, RecvItem),
                                                      t.peekCount = 0))])

StepInit == \E in \in LexInputs : InitWith(in, Frame("client", "call"))

StepNext == LexerNext \/ ClientPeek \/ ClientNext

StepSpec == StepInit /\ [][StepNext]_vars

\* C25: Peek returns the token the next Next returns and takes nothing:
\* after a Peek, every Peek that follows it with no other call in between
\* returns the same token and receives nothing from the lexer, so that all of
\* them together receive at most one token, and the Next that follows them
\* returns that token too and receives nothing.
C25_PeekThenNext ==
    \A i \in 1..Len(calls) : \A j \in (i + 1)..Len(calls) :
        calls[i].op = "Peek" =>
            /\ calls[j].tok = calls[i].tok
            /\ ~calls[j].read

\* The same on the Tree as the parser leaves it, pushed-back tokens included:
\* in is what the lexer would send to the Peek, other what it would send next.
PeekAgreesWithNext ==
    \A other \in {ZeroItem, VirtualTagEnd} :
        LET t1 == TreePeek(t, RecvItem)
        IN /\ t1.peekCount > 0
           /\ PeekToken(t1, other) = PeekToken(t, RecvItem)
           /\ TreePeek(t1, other) = t1
           /\ NextToken(t1, other) = PeekToken(t, RecvItem)

\* Two Peeks and a Next: the first Peek received a text token from the lexer.
C25_Witness ==
    /\ Len(calls) = 3
    /\ calls[1].op = "Peek" /\ calls[1].read /\ calls[1].tok.typ = itemText
    /\ calls[2].op = "Peek"
    /\ calls[3].op = "Next"

\* ConsumeUntil goes round its loop on the zero items of the closed channel,
\* none of which is of the kind it waits for or EndOfInput.
ConsumeUntilSpins == Spinning /\ Last(stack).fn = "ConsumeUntil"

\* C26: ConsumeUntil terminates on every token stream the lexer can produce,
\* streams that end with an Error token included: it is never in its loop
\* with the channel closed and drained and nothing pending, where every Next
\* returns the zero item and the loop goes on for ever.
C26_ConsumeUntilTerminates == ~ConsumeUntilSpins

\* ---------------------------------------------------------------------------
\* The tokens newIfStmt pushes back
\* ---------------------------------------------------------------------------
\* Tokens that t.backup has put in items wait for a Next.
SyntheticPending == \E k \in 0..(t.peekCount - 1) : origin[k] = "backup"

\* The activation on top is a newIfStmt in its body loop, or the ConsumeUntil
\* it has called.
InIfBody ==
    /\ stack # <<>>
    /\ \/ Last(stack).fn = "newIfStmt" /\ Last(stack).pc \in {"body", "tagname"}
       \/ /\ Last(stack).fn = "ConsumeUntil"
          /\ stack[Len(stack) - 1].fn = "newIfStmt"

\* This step is a Next that returns a token t.backup has put in items.
SyntheticTaken ==
    /\ t.peekCount > 0
    /\ origin[t.peekCount - 1] = "backup"
    /\ t'.peekCount = t.peekCount - 1

\* In this step a newIfStmt returns its node: the ConsumeUntil it has called
\* returns and the two activations end.
IfReturns ==
    /\ Len(stack) >= 3
    /\ Last(stack).fn = "ConsumeUntil"
    /\ stack[Len(stack) - 1].fn = "newIfStmt"
    /\ Len(stack') = Len(stack) - 2

\* The caller of the newIfStmt that returns is a newIfStmt that met elif,
\* which pushes its own three tokens back at once.
ReturnsToElIf ==
    /\ stack[Len(stack) - 2].fn = "newIfStmt"
    /\ stack[Len(stack) - 2].pc = "callElIf"

\* A token t.backup has put in items is returned by a Next of the body loop
\* of newIfStmt or of the ConsumeUntil it calls, and when a newIfStmt returns
\* its node nothing is left in items.
SyntheticTakenInIf == [][SyntheticTaken => InIfBody]_vars
IfReturnsEmpty ==
    [][IfReturns => t'.peekCount = (IF ReturnsToElIf THEN 3 ELSE 0)]_vars

\* parse has appended the node of an if statement to Root and has not called
\* Peek since: a newIfStmt called at the top level has just returned.
IfJustReturned ==
    /\ Len(stack) = 1
    /\ stack[1].fn = "parse"
    /\ stack[1].pc = "peek"
    /\ t.Root # <<>>
    /\ Len(t.Root) < MaxBody
    /\ Last(t.Root).kind = "IfStmt"

\* C27: the tokens pushed back after an else or elif branch (a made-up
\* TagEnd, a made-up Identifier endif, the TagStart) are taken again by the
\* newIfStmt that pushed them: they wait in items only while its body loop or
\* its ConsumeUntil runs; and when newIfStmt has returned its node, items is
\* empty and the tokens of the lexer taken last are the endif of the template
\* and its TagEnd, so that the next token delivered is the one after them.
C27_PushedBackAreConsumed ==
    /\ SyntheticPending => InIfBody
    /\ IfJustReturned =>
          /\ t.peekCount = 0
          /\ Len(consumed) >= 2
          /\ consumed[Len(consumed) - 1].typ = itemIdentifier
          /\ consumed[Len(consumed) - 1].val = endifName
          /\ consumed[Len(consumed)].typ = itemTagEnd

\* ---------------------------------------------------------------------------
\* The bodies of the tree
\* ---------------------------------------------------------------------------
\* The nodes a body loop builds: from a Text token, or from a tag.
StatementKinds == {"TextValue", "BlockStmt", "IfStmt", "TagNode"}

\* Every entry of the body, and of the bodies below it, is a node built from
\* a Text token or a tag, and each but the first from a token further on in
\* the template than the one before it: no nil, no node of an expression, no
\* node twice.
RECURSIVE BodyWellBuilt(_)
BodyWellBuilt(body) ==
    \A k \in 1..Len(body) :
        /\ body[k].kind \in StatementKinds
        /\ k > 1 => body[k - 1].Start < body[k].Start
        /\ body[k].kind = "BlockStmt" => BodyWellBuilt(body[k].Body)
        /\ body[k].kind = "IfStmt" =>
              /\ BodyWellBuilt(body[k].Body)
              /\ body[k].Else # NilNode => BodyWellBuilt(body[k].Else.Body)

\* C28: in every tree Parse returns, each entry of the body of a block, of an
\* if and of an else is a node, not nil, built from one Text token or one tag
\* of that body, in the order of the template: a token of another kind ({{,
\* an identifier in a variable marker, }}, Error) adds nothing to the body,
\* neither nil, nor a node of the expression, nor the node built before it
\* once more.
C28_BodiesWellBuilt ==
    ret = [done |-> TRUE, err |-> NoErr] =>
        \A i \in 1..Len(t.Root) :
            t.Root[i].kind \in {"BlockStmt", "IfStmt"} => BodyWellBuilt(<<t.Root[i]>>)

\* ---------------------------------------------------------------------------
\* The lexer goroutine after Parse
\* ---------------------------------------------------------------------------
\* Parse has returned and run waits in a send: nobody receives on the channel
\* of this lexer any more.
LexerLeftBlocked == ret.done /\ SendBlocked(chq) /\ lstate # "done"

\* Once left blocked, blocked for ever: run never returns and the channel is
\* never closed.
LeftBlockedForEver == [][LexerLeftBlocked => (LexerLeftBlocked' /\ ~closed')]_vars

\* C29: whenever Parse has returned, with nil or with an error, the goroutine
\* of its lexer comes to its end, run returning and the channel closed: it is
\* never left waiting in a send that nobody will receive.
C29_LexerNotLeftBlocked == ~LexerLeftBlocked

\* ---------------------------------------------------------------------------
\* Parse called again on the same Tree
\* ---------------------------------------------------------------------------
\* t.Parse(in) on a Tree whose Parse has returned: a new lexer and channel,
\* Root emptied by parse; items and peekCount are not assigned.  The program
\* also calls Parse(in) on a fresh Tree (twin) to compare.
ParseAgain ==
    /\ ret.done
    /\ parses = 1
    /\ \E in \in {l.input, SegText} :
          /\ l' = NewLexer(in)
          /\ twin' = NewTwin(in)
    /\ lstate' = "lexText"
    /\ chq' = <<>>
    /\ closed' = FALSE
    /\ emitted' = <<>>
    /\ t' = [t EXCEPT !.Root = <<>>]
    /\ stack' = <<Frame("parse", "peek")>>
    /\ ret' = NotReturned
    /\ consumed' = <<>>
    /\ eofIn' = <<>>
    /\ parses' = 2
    /\ UNCHANGED <<origin, calls, output, evalVars, execVars, walkVars>>

MaxAgainSegs == 2
AgainInputs == SegInputs(MaxAgainSegs) \cup NamedInputs

AgainInit == \E in \in AgainInputs : InitWith(in, Frame("parse", "peek"))

AgainNext ==
    \/ LexerNext
    \/ ParseAct \/ TagAct \/ NewBlockStmtAct \/ NewIfStmtAct \/ NewElseStmtAct
    \/ ConsumeUntilAct
    \/ ParseAgain
    \/ TwinLexerStep \/ TwinLexClose \/ TwinParserStep

AgainSpec == AgainInit /\ [][AgainNext]_vars

\* C30: Parse can be called again on the same Tree: the second Parse(input)
\* on a Tree whose first Parse has returned returns the error and the Root
\* that Parse(input) returns on a fresh Tree, no token of the first parse
\* (such as its peeked EndOfInput) being left in items.
C30_ParseAgainIsFresh ==
    /\ (parses = 2 /\ stack = <<Frame("parse", "peek")>>) => t.peekCount = 0
    /\ (parses = 2 /\ ret.done /\ twin.m.ret.done) =>
          /\ ret = twin.m.ret
          /\ t.Root = twin.m.t.Root

\* ---------------------------------------------------------------------------
\* The items array
\* ---------------------------------------------------------------------------
\* C31: during Parse the number of tokens that wait in items is at least 0
\* and at most 5 at every step, for every template and nesting of if, else
\* and block: backup never writes past the 5 slots of items (Parse never ends
\* in the run-time panic of an index out of range), and the slot Next and
\* Peek read exists.
C31_PeekCountInRange ==
    /\ t.peekCount \in 0..ItemsLen
    /\ t.peekCount > 0 => (t.peekCount - 1) \in DOMAIN t.items
    /\ DOMAIN t.items = 0..(ItemsLen - 1)
    /\ ~(ret.done /\ ret.err = <<"panic: index out of range">>)

\* Three pushed-back tokens wait in items while an if is open inside the else
\* branch of another if.
C31_Witness ==
    /\ t.peekCount = 3
    /\ origin[0] = "backup" /\ origin[1] = "backup" /\ origin[2] = "backup"
    /\ Len(stack) >= 3
    /\ \E i \in 1..Len(stack) : \E j \in (i + 1)..Len(stack) :
          stack[i].fn = "newIfStmt" /\ stack[j].fn = "newIfStmt"

\* ---------------------------------------------------------------------------
\* Delimiters in the token stream
\* ---------------------------------------------------------------------------
\* The opening delimiter that the closing delimiter at k of the stream closes:
\* the last TagStart or VarStart before it (0 if there is none).
OpenerOf(toks, k) ==
    LET before == {i \in 1..(k - 1) : toks[i].typ \in {itemTagStart, itemVarStart}}
    IN IF before = {} THEN 0 ELSE CHOOSE i \in before : \A j \in before : j <= i

\* C32: opening and closing delimiters match in kind: in the stream of the
\* lexer's tokens every TagEnd closes a TagStart and every VarEnd closes a
\* VarStart.
C32_DelimitersMatch ==
    \A k \in 1..Len(emitted) :
        /\ emitted[k].typ = itemTagEnd =>
              /\ OpenerOf(emitted, k) # 0
              /\ emitted[OpenerOf(emitted, k)].typ = itemTagStart
        /\ emitted[k].typ = itemVarEnd =>
              /\ OpenerOf(emitted, k) # 0
              /\ emitted[OpenerOf(emitted, k)].typ = itemVarStart

\* ---------------------------------------------------------------------------
\* Closers and the constructs they close
\* ---------------------------------------------------------------------------
\* The tags of the token stream toks from k on, open the constructs open
\* before k, innermost last ("block", "if", or "else" for an if whose else
\* has been met): some endif, endblock or else of the stream does not belong
\* to the innermost open construct.
RECURSIVE Misplaced(_, _, _)
Misplaced(toks, k, open) ==
    IF k >= Len(toks) THEN FALSE
    ELSE IF toks[k].typ # itemTagStart THEN Misplaced(toks, k + 1, open)
    ELSE LET name == toks[k + 1]
             inner == IF open = <<>> THEN "none" ELSE open[Len(open)]
             outer == SubSeq(open, 1, Len(open) - 1)
         IN CASE name.typ = itemBlock -> Misplaced(toks, k + 2, Append(open, "block"))
              [] name.typ = itemIf -> Misplaced(toks, k + 2, Append(open, "if"))
              [] name.typ = itemElse ->
                   IF inner = "if" THEN Misplaced(toks, k + 2, Append(outer, "else"))
                   ELSE TRUE
              [] name.typ = itemIdentifier /\ name.val = endifName ->
                   IF inner \in {"if", "else"} THEN Misplaced(toks, k + 2, outer)
                   ELSE TRUE
              [] name.typ = itemIdentifier /\ name.val = endblockName ->
                   IF inner = "block" THEN Misplaced(toks, k + 2, outer)
                   ELSE TRUE
              [] OTHER -> Misplaced(toks, k + 2, open)

\* C33: with no tag registered, a closer that does not belong to the
\* innermost open construct ends the parse with an error: endif in the body
\* of a block, endblock in the body of an if or of an else, either of them at
\* the top level, and a second else in one if.  When Parse has returned nil,
\* the template it has read holds no such tag.
C33_ClosersMatch ==
    (ret.done /\ t.registeredTags = {} /\ Misplaced(consumed, 1, <<>>)) =>
        ret.err # NoErr

\* ---------------------------------------------------------------------------
\* The else branch of an if
\* ---------------------------------------------------------------------------
\* The place of the first TagEnd of toks at or after k, Len(toks) + 1 if
\* there is none: where the tag that holds the token k ends.
RECURSIVE TagEndFrom(_, _)
TagEndFrom(toks, k) ==
    IF k > Len(toks) \/ toks[k].typ = itemTagEnd THEN k
    ELSE TagEndFrom(toks, k + 1)

\* The places in toks, from k on, of the else tokens that name a tag lying
\* directly in the body of an if, a tag being the tokens from a TagStart to
\* the next TagEnd; open is as in Misplaced.
RECURSIVE ElseTags(_, _, _)
ElseTags(toks, k, open) ==
    IF k >= Len(toks) THEN {}
    ELSE IF toks[k].typ # itemTagStart THEN ElseTags(toks, k + 1, open)
    ELSE LET name == toks[k + 1]
             after == TagEndFrom(toks, k + 1) + 1
             inner == IF open = <<>> THEN "none" ELSE open[Len(open)]
             outer == SubSeq(open, 1, Len(open) - 1)
         IN CASE name.typ = itemBlock -> ElseTags(toks, after, Append(open, "block"))
              [] name.typ = itemIf -> ElseTags(toks, after, Append(open, "if"))
              [] name.typ = itemElse /\ inner = "if" ->
                   {k + 1} \cup ElseTags(toks, after, Append(outer, "else"))
              [] name.typ = itemIdentifier /\ name.val = endifName
                 /\ inner \in {"if", "else"} -> ElseTags(toks, after, outer)
              [] name.typ = itemIdentifier /\ name.val = endblockName
                 /\ inner = "block" -> ElseTags(toks, after, outer)
              [] OTHER -> ElseTags(toks, after, open)

\* The else tags read so far that take no argument.
BareElseTags ==
    {k \in ElseTags(consumed, 1, <<>>) :
        k < Len(consumed) /\ consumed[k + 1].typ = itemTagEnd}

\* The IfStmt nodes of the tree that have an else branch.
IfsWithElse == {n \in NodesIn(t.Root) : n.kind = "IfStmt" /\ n.Else # NilNode}

\* The texts of a body of at most one text segment, without positions.
TextShapes(seg) ==
    IF seg = <<>> THEN <<>> ELSE <<[kind |-> "TextValue", Text |-> seg]>>

\* The tree, without positions, of an if on a with the text B as its body and
\* the text C under else, followed by the text D.
IfElseShape(B, C, D) ==
    <<[kind |-> "IfStmt",
       Expression |-> <<[kind |-> "Identifier", Name |-> <<"a">>]>>,
       Body |-> TextShapes(B),
       Else |-> [kind |-> "BlockStmt", Name |-> <<>>, Body |-> TextShapes(C)]]>>
    \o TextShapes(D)

\* C34: {% if A %}B{% else %}C{% endif %} parses to one IfStmt with the body
\* [B] whose Else is a BlockStmt with the name "" and the body [C], and what
\* follows the endif is parsed after it; in a tree Parse has built, the ifs
\* with an Else are as many as the else tags without argument, each Else an
\* unnamed BlockStmt, so an if without else has Else = nil; and an else
\* followed by anything but the tag end makes Parse return an error.  The
\* tags are counted in the templates parsed with no tag registered, where
\* every token is read by the parser itself.
C34_IfElse ==
    ret.done =>
        /\ \A B \in {<<>>, SegText} : \A C \in {<<>>, SegText} :
             \A D \in {<<>>, SegText} :
               l.input = SegIf \o B \o SegElse \o C \o SegEndif \o D =>
                   /\ ret.err = NoErr
                   /\ [i \in 1..Len(t.Root) |-> Shape(t.Root[i])] = IfElseShape(B, C, D)
        /\ l.input \in {InIfElseInt, InIfElseEq, InIfElseStr} =>
               /\ ret.err = NoErr
               /\ Len(t.Root) = 1
               /\ t.Root[1].kind = "IfStmt"
               /\ Len(t.Root[1].Expression) = 3
               /\ Shape(t.Root[1].Else).kind = "BlockStmt"
               /\ Shape(t.Root[1].Else).Name = <<>>
               /\ <<Shape(t.Root[1].Body[1]).Text, Shape(t.Root[1].Else.Body[1]).Text>>
                      = IF l.input = InIfElseStr
                        THEN <<<<"y", "e", "s">>, <<"n", "o">>>>
                        ELSE <<<<"A">>, <<"B">>>>
               /\ Len(t.Root[1].Body) = 1 /\ Len(t.Root[1].Else.Body) = 1
        /\ (ret.err = NoErr /\ t.registeredTags = {}) =>
               /\ Cardinality(IfsWithElse) = Cardinality(BareElseTags)
               /\ \A n \in IfsWithElse : n.Else.kind = "BlockStmt" /\ n.Else.Name = <<>>
        /\ (/\ t.registeredTags = {}
            /\ \E k \in ElseTags(consumed, 1, <<>>) :
                  k < Len(consumed) /\ consumed[k + 1].typ # itemTagEnd)
               => ret.err # NoErr

\* Parse has returned the tree of {% if 1 == 1 %}A{% else %}B{% endif %}, an
\* if with an else branch.
C34_Witness ==
    ret.done /\ ret.err = NoErr /\ l.input = InIfElseEq /\ IfsWithElse # {}

\* Parse has returned an error on an else tag with an argument.
C34_WitnessElseArgument ==
    /\ ret.done /\ ret.err # NoErr
    /\ \E k \in ElseTags(consumed, 1, <<>>) :
           k < Len(consumed) /\ consumed[k + 1].typ = itemIdentifier

\* ---------------------------------------------------------------------------
\* The expression of an if
\* ---------------------------------------------------------------------------
\* The places in toks, from k on, of the TagStart tokens that begin a tag.
RECURSIVE TagStartsFrom(_, _)
TagStartsFrom(toks, k) ==
    IF k >= Len(toks) THEN {}
    ELSE IF toks[k].typ # itemTagStart THEN TagStartsFrom(toks, k + 1)
    ELSE {k} \cup TagStartsFrom(toks, TagEndFrom(toks, k + 1) + 1)

\* The if tags read so far, and the tokens of the expression of the if tag
\* at k: those between the if and the TagEnd, or up to the last token read.
IfTags == {k \in TagStartsFrom(consumed, 1) : consumed[k + 1].typ = itemIf}
ExprTokens(k) == SubSeq(consumed, k + 2, TagEndFrom(consumed, k + 2) - 1)

\* val is a base-10 integer: an optional sign and one decimal digit or more;
\* and its value when it has at most nine digits.
IsDecimal(val) ==
    LET ds == IF val # <<>> /\ Head(val) \in {"+", "-"} THEN Tail(val) ELSE val
    IN ds # <<>> /\ \A i \in 1..Len(ds) : ds[i] \in Digits
DecimalOf(val) ==
    CASE Head(val) = "-" -> 0 - DecimalValue(Tail(val), 0)
      [] Head(val) = "+" -> DecimalValue(Tail(val), 0)
      [] OTHER -> DecimalValue(val, 0)

\* val is a base-10 integer and fits in an int.
IsIntDecimal(val) ==
    /\ IsDecimal(val)
    /\ InIntRange(IF Head(val) \in {"+", "-"} THEN Tail(val) ELSE val,
                  Head(val) = "-")

\* The node of the expression for the token tok.
ExprNodeOf(tok) ==
    CASE tok.typ = itemString -> StringValue(tok.pos, tok.val)
      [] tok.typ = itemNumber -> IntValue(tok.pos, DecimalOf(tok.val))
      [] tok.typ = itemComparison -> Comparison(tok.pos, tok.val)
      [] tok.typ = itemIdentifier -> Identifier(tok.pos, tok.val)

\* The statement of C35 for the Number tokens that IsInt tells to be
\* integers.  Parse having returned with no tag registered: the Expression
\* of every IfStmt of the tree holds the nodes of the tokens of its tag, one
\* each and in their order; Parse has returned an error when an if tag holds
\* a token that is no String, Comparison, Identifier or integer Number, or
\* was not closed; and in {% if E %}x{% endif %} nothing but such a token
\* makes Parse return an error.
ExpressionBuilt(IsInt(_)) ==
    LET Good(tok) ==
            \/ tok.typ \in {itemString, itemComparison, itemIdentifier}
            \/ tok.typ = itemNumber /\ IsInt(tok.val)
        AllGood(k) ==
            /\ TagEndFrom(consumed, k + 2) <= Len(consumed)
            /\ \A i \in 1..Len(ExprTokens(k)) : Good(ExprTokens(k)[i])
    IN (ret.done /\ t.registeredTags = {}) =>
        /\ ret.err = NoErr =>
              \A n \in NodesIn(t.Root) : n.kind = "IfStmt" =>
                  \E k \in IfTags :
                      /\ consumed[k + 1].pos = n.Start
                      /\ n.Expression =
                            [i \in 1..Len(ExprTokens(k)) |-> ExprNodeOf(ExprTokens(k)[i])]
        /\ (\E k \in IfTags : ~AllGood(k)) => ret.err # NoErr
        /\ (l.input \in IfExprInputs /\ ret.err # NoErr) =>
              \E i \in 1..Len(ExprTokens(1)) : ~Good(ExprTokens(1)[i])

C35_WitnessRange ==
    /\ ret.done /\ ret.err # NoErr
    /\ Len(consumed) = 3
    /\ consumed[3].typ = itemNumber
    /\ IsDecimal(consumed[3].val) /\ ~IsIntDecimal(consumed[3].val)

\* ---------------------------------------------------------------------------
\* Parentheses
\* ---------------------------------------------------------------------------
\* The LeftParen tokens less the RightParen tokens among toks[a..b].
ParenBalance(toks, a, b) ==
    Cardinality({i \in a..b : toks[i].typ = itemLeftParen})
    - Cardinality({i \in a..b : toks[i].typ = itemRightParen})

\* A closing delimiter is what lexInsideTag is about to read.
AtCloser ==
    /\ lstate = "lexInsideTag"
    /\ \/ HasPrefixAt(l.input, l.pos, delimTagEnd)
       \/ HasPrefixAt(l.input, l.pos, delimVarEnd)

\* C36: parentheses are balanced in every tag the lexer closes.  parenDepth
\* is the count of the LeftParen less the RightParen tokens emitted; it is 0
\* where a TagStart, VarStart, TagEnd or VarEnd is emitted; between the
\* opening and the closing delimiter of a closed tag there are as many
\* LeftParen as RightParen and never more RightParen than LeftParen; a
\* RightParen that takes the depth below 0 is followed by an Error and by
\* nothing else; and lexInsideTag at a closing delimiter with parenDepth > 0
\* emits the Error "missing right paren" and no TagEnd or VarEnd.
C36_ParensBalanced ==
    /\ [](/\ l.parenDepth = ParenBalance(emitted, 1, Len(emitted))
          /\ l.parenDepth >= 0 - 1
          /\ \A k \in 1..Len(emitted) :
               /\ emitted[k].typ \in {itemTagStart, itemVarStart, itemTagEnd, itemVarEnd}
                     => ParenBalance(emitted, 1, k) = 0
               /\ emitted[k].typ \in {itemTagEnd, itemVarEnd} =>
                     /\ OpenerOf(emitted, k) # 0
                     /\ ParenBalance(emitted, OpenerOf(emitted, k), k) = 0
                     /\ \A j \in OpenerOf(emitted, k)..k :
                           ParenBalance(emitted, OpenerOf(emitted, k), j) >= 0
               /\ ParenBalance(emitted, 1, k) < 0 =>
                     /\ k >= Len(emitted) - 1
                     /\ (lstate \in {"close", "done"} \/ k < Len(emitted)) =>
                           Last(emitted).typ = itemError)
    /\ [][(AtCloser /\ l.parenDepth > 0 /\ lstate' # lstate) =>
             /\ emitted' = Append(emitted,
                                  [Last(emitted') EXCEPT !.typ = itemError,
                                       !.val = <<"missing right paren">>])
             /\ lstate' = "close"]_vars

\* A tag with a pair of parentheses has been closed.
C36_Witness ==
    \E k \in 1..Len(emitted) :
        /\ emitted[k].typ \in {itemTagEnd, itemVarEnd}
        /\ \E i \in OpenerOf(emitted, k)..k : \E j \in (i + 1)..k :
              emitted[i].typ = itemLeftParen /\ emitted[j].typ = itemRightParen

\* The lexer has halted on "missing right paren".
C36_WitnessMissing ==
    /\ emitted # <<>>
    /\ Last(emitted).typ = itemError
    /\ Last(emitted).val = <<"missing right paren">>
    /\ l.parenDepth > 0

\* ---------------------------------------------------------------------------
\* Newlines and the end of the input inside a tag
\* ---------------------------------------------------------------------------
\* The tag opened by the token o of toks has no closing delimiter among
\* toks[o+1..k].
OpenAt(toks, o, k) ==
    /\ toks[o].typ \in {itemTagStart, itemVarStart}
    /\ \A c \in (o + 1)..k : toks[c].typ \notin {itemTagEnd, itemVarEnd}

\* There is a newline in the input after the delimiter that opened the tag
\* still open, before the place the lexer has read up to.
NewlineInOpenTag ==
    \E o \in 1..Len(emitted) :
        /\ OpenAt(emitted, o, Len(emitted))
        /\ \E i \in (emitted[o].pos + 1)..l.pos : l.input[i] = "\n"

FirstByte(it) == IF it.typ = itemError THEN it.pos ELSE it.pos - Len(it.val)

\* C38: the line of every emitted token is 1 plus the number of newlines in
\* the input before the first byte of the token, whether the newlines were
\* skipped by lexText, read by next and given back by backup, or passed by
\* ignore.
C38_LineOfToken ==
    \A k \in 1..Len(emitted) :
        emitted[k].line
            = 1 + CountNewlines(SubSeq(l.input, 1, FirstByte(emitted[k])))

\* The lexer has emitted the TagStart on line 3 of the input x\ny\n{% a %}\nz
\* and the last Text on line 3 as well, then EndOfInput on line 4.
C38_Witness ==
    /\ l.input = LexLines
    /\ \E k \in 1..Len(emitted) : emitted[k].typ = itemTagStart /\ emitted[k].line = 3
    /\ Last(emitted).typ = itemEOF /\ Last(emitted).line = 4

====
